---- MODULE Spec2Model ----
(***************************************************************************)
(* A model of the glTF 2.0 exporter (GLTFExporter / GLTFWriter).           *)
(*                                                                         *)
(* These specifications share this module:                                 *)
(*   SpecRegistry    register / unregister on the exporter's factory list  *)
(*   SpecGLB         the GLB framing written by GLTFWriter.write           *)
(*   SpecBufferView  processBufferView / processBufferViewImage on a       *)
(*                   writer, called with arbitrary arguments               *)
(*   Spec            one parse(): traversal, deferred skins and            *)
(*                   animations, pending image encodes, finalization       *)
(*   SpecExporter    two parse() calls on one exporter, one after the      *)
(*                   other or overlapping, with register / unregister      *)
(*                   calls in between                                      *)
(*   SpecAccessor    one processAccessor call on attributes with data      *)
(*   SpecMerge       mergeMorphTargetTracks on a clip of keyframe tracks   *)
(*   SpecKeyframe    one insertKeyframe call on a track                    *)
(*   FairSpec        Spec under weak fairness, on part of its inputs       *)
(* Each specification leaves the variables of the others untouched.        *)
(*                                                                         *)
(* JSON indices are 0-based as in the code; TLA+ sequences are 1-based, so *)
(* index i of an array is element i + 1 of the sequence that models it.    *)
(* A JSON array that the code creates lazily right before its first push   *)
(* is modelled by the empty sequence while it is absent.                   *)
(***************************************************************************)
EXTENDS Integers, Sequences, FiniteSets, TLC

VARIABLES
    pluginCallbacks,  \* GLTFExporter.pluginCallbacks
    lastCall,         \* history: the last register/unregister call and the list before it
    glbIn,            \* the JSON text bytes and the merged binary blob handed to the GLB writer
    glbOut,           \* the bytes passed to onDone in binary mode (<<>> before)
    bvCalls,          \* history: the arguments of each processBufferView(Image) call, in order
    graph,            \* the scene graph handed to parse (objects 1..NObj under scene 0)
    options,          \* the options argument of parse
    writer,           \* the GLTFWriter instance
    pc,               \* where write() stands
    stack,            \* the processScene / processNode activations, innermost last
    inputIdx,         \* loop index i of processInput's loop over input
    objectsWithoutScene,
    skinIdx,          \* loop index of processInput's loop over writer.skins
    animIdx,          \* loop index of processInput's loop over options.animations
    onDoneCalls,      \* number of onDone invocations
    onErrorCalls,     \* number of onError invocations
    output,           \* what onDone received
    atAwait,          \* history: the writer when processInput returned
    other,            \* the other write of the exporter, if any: <<its state>>
    current,          \* which parse() call the writer belongs to: 1 or 2
    calledAt,         \* history: where the first write stood when parse was called again
    accIn,            \* the arguments of a processAccessor call
    accOut,           \* <<what the call returned>>, <<>> before it
    clipIn,           \* the clip handed to mergeMorphTargetTracks
    merging,          \* mergeMorphTargetTracks: its loop indices, tracks and mergedTracks
    keyIn,            \* the track and the time of an insertKeyframe call
    keyOut            \* <<the track afterwards and the index returned>>, <<>> before

rvars == <<pluginCallbacks, lastCall>>
gvars == <<glbIn, glbOut>>
evars == <<other, current, calledAt>>
avars == <<accIn, accOut>>
kvars == <<keyIn, keyOut>>
mvars == <<clipIn, merging, kvars>>
ctl == <<pc, stack, inputIdx, objectsWithoutScene, skinIdx, animIdx>>
cbs == <<onDoneCalls, onErrorCalls, output>>
wvars == <<graph, options, writer, ctl, cbs, atAwait, bvCalls>>
vars == <<rvars, gvars, wvars, evars, avars, mvars>>

(***************************************************************************)
(* Sentinels for the JavaScript values that are not indices.               *)
(***************************************************************************)
Null == -1
Undefined == -2
Absent == -3

(***************************************************************************)
(* Generic helpers.                                                        *)
(***************************************************************************)
Range(s) == {s[k] : k \in 1..Len(s)}

InSeq(x, s) == \E k \in 1..Len(s) : s[k] = x

NoDuplicates(s) == \A j, k \in 1..Len(s) : s[j] = s[k] => j = k

\* Array.prototype.indexOf, 0-based, -1 when absent.
IndexOf(s, x) ==
    IF InSeq(x, s) THEN (CHOOSE k \in 1..Len(s) : s[k] = x /\ \A j \in 1..(k - 1) : s[j] # x) - 1
    ELSE -1

\* Array.prototype.splice(at, 1), at 0-based.
SpliceOne(s, at) == [k \in 1..(Len(s) - 1) |-> IF k <= at THEN s[k] ELSE s[k + 1]]

RECURSIVE SumSeq(_)
SumSeq(s) == IF Len(s) = 0 THEN 0 ELSE s[Len(s)] + SumSeq(SubSeq(s, 1, Len(s) - 1))

\* `const x = value; ... Then(x)`: the value is computed once and then used
Bind(value, Then(_)) == CHOOSE y \in {Then(x) : x \in {value}} : TRUE

\* the same for two values, the second computed from the first
Bind2(value, Second(_), Then(_, _)) ==
    CHOOSE y \in {Then(x[1], x[2]) : x \in {<<v, Second(v)>> : v \in {value}}} : TRUE

ReverseSeq(s) == [k \in 1..Len(s) |-> s[Len(s) + 1 - k]]

RECURSIVE Repeat(_, _)
Repeat(x, n) == IF n <= 0 THEN <<>> ELSE <<x>> \o Repeat(x, n - 1)

(***************************************************************************)
(* SpecRegistry: GLTFExporter.register / unregister.                       *)
(***************************************************************************)
NBuiltin == 2   \* factories the constructor registers (14 in the code, all distinct)
NCustom == 2    \* further factories a caller may register

Factories == 1..(NBuiltin + NCustom)

RegisterNoCheck(list, callback) == Append(list, callback)

Register(list, callback) ==
    IF IndexOf(list, callback) = -1 THEN Append(list, callback) ELSE list

Unregister(list, callback) ==
    IF IndexOf(list, callback) # -1 THEN SpliceOne(list, IndexOf(list, callback)) ELSE list

RECURSIVE RegisterAll(_, _)
RegisterAll(list, fs) ==
    IF fs = <<>> THEN list ELSE RegisterAll(Register(list, fs[1]), Tail(fs))

\* The constructor: an empty list, then one register call per built-in plug-in.
ExporterConstructor == RegisterAll(<<>>, [k \in 1..NBuiltin |-> k])

InitRegistry ==
    /\ pluginCallbacks = ExporterConstructor
    /\ lastCall = [op |-> "new", f |-> 0, before |-> <<>>]

CallRegister ==
    \E f \in Factories :
        /\ pluginCallbacks' = Register(pluginCallbacks, f)
        /\ lastCall' = [op |-> "register", f |-> f, before |-> pluginCallbacks]

CallUnregister ==
    \E f \in Factories :
        /\ pluginCallbacks' = Unregister(pluginCallbacks, f)
        /\ lastCall' = [op |-> "unregister", f |-> f, before |-> pluginCallbacks]

(***************************************************************************)
(* SpecGLB: the binary branch of GLTFWriter.write.                         *)
(***************************************************************************)
GLB_HEADER_BYTES == 12
GLB_HEADER_MAGIC == 1179937895      \* 0x46546C67
GLB_VERSION == 2
GLB_CHUNK_PREFIX_BYTES == 8
GLB_CHUNK_TYPE_JSON == 1313821514   \* 0x4E4F534A
GLB_CHUNK_TYPE_BIN == 5130562       \* 0x004E4942

MaxJsonLen == 3   \* longest JSON text between its braces, in bytes
MaxChunks == 2    \* most binary chunks the writer accumulated
MaxChunkLen == 5  \* longest unpadded binary chunk, in bytes

\* Bytes of the JSON text between '{' and '}': '"' and 'a'.
JsonBytes == {34, 97}

\* Math.ceil(bufferSize / 4) * 4
getPaddedBufferSize(bufferSize) == ((bufferSize + 3) \div 4) * 4

getPaddedArrayBufferZero(arrayBuffer, paddingByte) ==
    arrayBuffer \o Repeat(0, getPaddedBufferSize(Len(arrayBuffer)) - Len(arrayBuffer))

getPaddedArrayBuffer(arrayBuffer, paddingByte) ==
    LET paddedLength == getPaddedBufferSize(Len(arrayBuffer))
    IN  IF paddedLength # Len(arrayBuffer)
        THEN [k \in 1..paddedLength |->
                 IF k <= Len(arrayBuffer) THEN arrayBuffer[k] ELSE paddingByte]
        ELSE arrayBuffer

\* DataView.setUint32(offset, value, true): four bytes, little-endian.
setUint32LE(value) ==
    << value % 256, (value \div 256) % 256, (value \div 65536) % 256,
       (value \div 16777216) % 256 >>

\* The chunk prefix: chunk length, then chunk type.
ChunkPrefix(chunk, type) == setUint32LE(Len(chunk)) \o setUint32LE(type)

\* The bytes write() hands to onDone when options.binary is true.
WriteGLB(jsonText, blob) ==
    LET binaryChunk == getPaddedArrayBuffer(blob, 0)
        binaryChunkPrefix == ChunkPrefix(binaryChunk, GLB_CHUNK_TYPE_BIN)
        jsonChunk == getPaddedArrayBuffer(jsonText, 32)
        jsonChunkPrefix == ChunkPrefix(jsonChunk, GLB_CHUNK_TYPE_JSON)
        totalByteLength == GLB_HEADER_BYTES
                           + Len(jsonChunkPrefix) + Len(jsonChunk)
                           + Len(binaryChunkPrefix) + Len(binaryChunk)
        header == setUint32LE(GLB_HEADER_MAGIC) \o setUint32LE(GLB_VERSION)
                  \o setUint32LE(totalByteLength)
    IN  header \o jsonChunkPrefix \o jsonChunk \o binaryChunkPrefix \o binaryChunk

BytesUpTo(S, n) == UNION {[1..k -> S] : k \in 0..n}

\* JSON.stringify(json) as bytes: an object, so braces around the rest
JsonTexts == {<<123>> \o m \o <<125>> : m \in BytesUpTo(JsonBytes, MaxJsonLen)}

\* the chunks processBufferView(Image) hands to processBuffer are padded with zeros
\* (every data byte is 0xFF here, so that padding shows)
PaddedChunk(n) == getPaddedArrayBuffer(Repeat(255, n), 0)

\* new Blob(buffers): the chunks one after the other
RECURSIVE Blob(_)
Blob(buffers) ==
    IF Len(buffers) = 0 THEN <<>>
    ELSE Blob(SubSeq(buffers, 1, Len(buffers) - 1)) \o buffers[Len(buffers)]

ChunkLists == UNION {[1..k -> 1..MaxChunkLen] : k \in 0..MaxChunks}

InitGLB ==
    /\ glbIn \in { [json |-> j, bin |-> Blob([k \in 1..Len(c) |-> PaddedChunk(c[k])])] :
                   j \in JsonTexts, c \in ChunkLists }
    /\ glbOut = <<>>

\* write() with options.binary: onDone receives the GLB
EmitGLB ==
    /\ glbOut = <<>>
    /\ glbOut' = WriteGLB(glbIn.json, glbIn.bin)
    /\ UNCHANGED glbIn

(***************************************************************************)
(* The writer: state, codec (buffer, bufferView, accessor).                *)
(***************************************************************************)
BYTE == 5120                   \* 0x1400
UNSIGNED_BYTE == 5121
SHORT == 5122
UNSIGNED_SHORT == 5123
INT == 5124
UNSIGNED_INT == 5125
FLOAT == 5126
ARRAY_BUFFER == 34962          \* 0x8892
ELEMENT_ARRAY_BUFFER == 34963
TRIANGLES == 4

\* Map.has / Map.get / Map.set on a map modelled as a function.
MapHas(m, k) == k \in DOMAIN m
MapGet(m, k) == IF k \in DOMAIN m THEN m[k] ELSE Undefined
MapSet(m, k, v) == (k :> v) @@ m

EmptyJson ==
    [ nodes |-> <<>>, meshes |-> <<>>, materials |-> <<>>, textures |-> <<>>,
      images |-> <<>>, samplers |-> <<>>, accessors |-> <<>>, bufferViews |-> <<>>,
      buffers |-> <<>>, skins |-> <<>>, animations |-> <<>>, cameras |-> <<>>,
      scenes |-> <<>>, extensionsUsed |-> <<>>, extensionsRequired |-> <<>> ]

DefaultOptions ==
    [ binary |-> FALSE, trs |-> FALSE, onlyVisible |-> TRUE, animations |-> <<>>,
      includeCustomExtensions |-> FALSE ]

\* new GLTFWriter(); `thrown` holds the error a handler threw ("" while none).
\* `geometries` is the state of the caller's geometries that processMesh
\* changes: per geometry, the `normal` attribute and the index it holds when
\* they are not the original ones.
\* extensionsUsed and extensionsRequired are objects used as sets of names: each
\* is modelled by its own keys in insertion order (extension names are never
\* array indices, so that is the order of Object.keys). `broadcasts` is a
\* history of the _invokeAll calls.
NewWriter ==
    [ plugins |-> <<>>,
      extensionsUsed |-> <<>>,
      extensionsRequired |-> <<>>,
      broadcasts |-> <<>>,
      options |-> DefaultOptions,
      pending |-> <<>>,
      buffers |-> <<>>,
      byteOffset |-> 0,
      nodeMap |-> <<>>,
      skins |-> <<>>,
      json |-> EmptyJson,
      cache |-> [ meshes |-> <<>>, attributes |-> <<>>, attributesNormalized |-> <<>>,
                  materials |-> <<>>, textures |-> <<>>, images |-> <<>> ],
      geometries |-> <<>>,
      thrown |-> "" ]

Ret(w, value) == [w |-> w, ret |-> value]

Throw(w, message) == [w |-> [w EXCEPT !.thrown = message], ret |-> Undefined]

\* processBuffer: every chunk goes to the one buffer, index 0. The buffer
\* has no uri yet: a uri is a sequence of parts, and here it has none.
ProcessBuffer(w, buffer) ==
    Ret([w EXCEPT !.json.buffers = IF @ = <<>> THEN <<[byteLength |-> 0, uri |-> <<>>]>> ELSE @,
                  !.buffers = Append(@, buffer)],
        0)

ComponentSize(componentType) ==
    CASE componentType \in {BYTE, UNSIGNED_BYTE} -> 1
      [] componentType \in {SHORT, UNSIGNED_SHORT} -> 2
      [] OTHER -> 4

VertexStrideUnaligned(byteStride) == byteStride

\* Math.ceil(byteStride / 4) * 4, applied to ARRAY_BUFFER targets
VertexStride(byteStride) == ((byteStride + 3) \div 4) * 4

BufferViewOffsetStale(w) == Len(w.buffers) * 4

\* the byteOffset a new bufferView gets: the writer's running total
BufferViewOffset(w) == w.byteOffset

\* the contents a typed array of n numbers has in the scenes of this model
SampleArray(id, n) == [k \in 1..n |-> (id + 2 * k) % 5]

\* the largest stored integer of a normalized array; 1 for arrays of floats
NormalizationScale(ctor) ==
    CASE ctor = "Uint8Array" -> 255
      [] ctor = "Int8Array" -> 127
      [] ctor = "Uint16Array" -> 65535
      [] ctor = "Int16Array" -> 32767
      [] OTHER -> 1

\* Math.round of the fraction num / den
MathRound(num, den) == (2 * num + den) \div (2 * den)

\* BufferAttribute.getX .. getW: the stored number, as the fraction of the
\* scale it stands for when the attribute is normalized (not below -1)
GetComponent(attribute, i, a) ==
    LET stored == attribute.array[i * attribute.itemSize + a + 1]
        scale == NormalizationScale(attribute.ctor)
    IN  IF attribute.normalized
        THEN [num |-> IF stored < -scale THEN -scale ELSE stored, den |-> scale]
        ELSE [num |-> stored, den |-> 1]

\* MathUtils.normalize(value, array): the integer that stores the fraction
MathNormalize(value, ctor) == MathRound(value.num * NormalizationScale(ctor), value.den)

\* the `value` computed by the inner loops of getMinMax and processBufferView
ComponentValue(attribute, i, a) ==
    IF attribute.itemSize > 4 THEN attribute.array[i * attribute.itemSize + a + 1]
    ELSE IF attribute.normalized
    THEN MathNormalize(GetComponent(attribute, i, a), attribute.ctor)
    ELSE GetComponent(attribute, i, a).num

MathMin(acc, value) == IF acc = <<>> \/ value < acc[1] THEN <<value>> ELSE acc
MathMax(acc, value) == IF acc = <<>> \/ value > acc[1] THEN <<value>> ELSE acc

WholeArray(attribute, start, count) == [first |-> 0, last |-> attribute.count - 1]

\* the elements the loops of getMinMax and processBufferView run over:
\* `for (let i = start; i < start + count; i++)`
LoopRange(attribute, start, count) == [first |-> start, last |-> start + count - 1]

\* getMinMax's loops from element i on; <<>> stands for the infinities the
\* bounds start from
RECURSIVE MinMaxFrom(_, _, _, _)
MinMaxFrom(attribute, i, last, bounds) ==
    LET Rest(b) == MinMaxFrom(attribute, i + 1, last, b)
    IN  IF i > last THEN bounds
        ELSE Bind([ min |-> [a \in 1..attribute.itemSize |->
                               MathMin(bounds.min[a], ComponentValue(attribute, i, a - 1))],
                    max |-> [a \in 1..attribute.itemSize |->
                               MathMax(bounds.max[a], ComponentValue(attribute, i, a - 1))] ],
                  Rest)

\* getMinMax(attribute, start, count)
getMinMax(attribute, start, count) ==
    LET range == LoopRange(attribute, start, count)
        Numbers(bounds) ==
            [ min |-> [a \in 1..attribute.itemSize |-> bounds.min[a][1]],
              max |-> [a \in 1..attribute.itemSize |-> bounds.max[a][1]] ]
    IN  Bind(MinMaxFrom(attribute, range.first, range.last,
                 [ min |-> [a \in 1..attribute.itemSize |-> <<>>],
                   max |-> [a \in 1..attribute.itemSize |-> <<>>] ]),
             Numbers)

\* processBufferView's loops from element i on: one cell per dataView.setXxx
\* call, at the offset the code has reached
RECURSIVE WriteElements(_, _, _, _, _, _, _)
WriteElements(attribute, componentType, i, last, byteStride, offset, cells) ==
    LET componentSize == ComponentSize(componentType)
        written == [a \in 1..attribute.itemSize |->
                       [ offset |-> offset + (a - 1) * componentSize,
                         value |-> ComponentValue(attribute, i, a - 1),
                         componentType |-> componentType ]]
        after == offset + attribute.itemSize * componentSize
        padded == IF after % byteStride # 0 THEN after + byteStride - (after % byteStride)
                  ELSE after
        Rest(next) ==
            WriteElements(attribute, componentType, i + 1, last, byteStride, next[1], next[2])
    IN  IF i > last THEN cells
        ELSE Bind(<<padded, cells \o written>>, Rest)

\* processBufferView; a chunk is its length and the cells written into it.
ProcessBufferView(w, attribute, componentType, start, count, target) ==
    LET componentSize == ComponentSize(componentType)
        byteStride == IF target = ARRAY_BUFFER
                      THEN VertexStride(attribute.itemSize * componentSize)
                      ELSE attribute.itemSize * componentSize
        byteLength == getPaddedBufferSize(count * byteStride)
        range == LoopRange(attribute, start, count)
        Chunk(cells) == [ byteLength |-> byteLength, kind |-> "attribute",
                          id |-> attribute.id, start |-> start, count |-> count,
                          cells |-> cells ]
        dataView == Bind(WriteElements(attribute, componentType, range.first, range.last,
                                       byteStride, 0, <<>>), Chunk)
        Push(pb) ==
            Ret([pb.w EXCEPT
                    !.byteOffset = @ + byteLength,
                    !.json.bufferViews =
                        Append(@, [ buffer |-> pb.ret,
                                    byteOffset |-> BufferViewOffset(w),
                                    byteLength |-> byteLength,
                                    target |-> IF target # Undefined THEN target ELSE Absent,
                                    byteStride |-> IF target = ARRAY_BUFFER THEN byteStride
                                                   ELSE Absent ])],
                [id |-> Len(w.json.bufferViews), byteLength |-> 0])
    IN  Bind(ProcessBuffer(w, dataView), Push)

\* processBufferViewImage, the part that runs once blob.arrayBuffer() resolved.
ProcessBufferViewImage(w, blob) ==
    LET buffer == [ byteLength |-> getPaddedBufferSize(blob.size), kind |-> "image",
                    id |-> blob.image, start |-> 0, count |-> blob.size, cells |-> <<>> ]
        pb == ProcessBuffer(w, buffer)
        bufferViewDef ==
            [ buffer |-> pb.ret,
              byteOffset |-> BufferViewOffset(w),
              byteLength |-> buffer.byteLength,
              target |-> Absent,
              byteStride |-> Absent ]
    IN  Ret([pb.w EXCEPT !.byteOffset = @ + buffer.byteLength,
                         !.json.bufferViews = Append(@, bufferViewDef)],
            Len(w.json.bufferViews))

\* the component type processAccessor detects from the array's constructor
ComponentTypeOf(ctor) ==
    CASE ctor = "Float32Array" -> FLOAT
      [] ctor = "Int32Array" -> INT
      [] ctor = "Uint32Array" -> UNSIGNED_INT
      [] ctor = "Int16Array" -> SHORT
      [] ctor = "Uint16Array" -> UNSIGNED_SHORT
      [] ctor = "Int8Array" -> BYTE
      [] ctor = "Uint8Array" -> UNSIGNED_BYTE
      [] OTHER -> Undefined

AccessorType(itemSize) ==
    CASE itemSize = 1 -> "SCALAR" [] itemSize = 2 -> "VEC2" [] itemSize = 3 -> "VEC3"
      [] itemSize = 4 -> "VEC4" [] itemSize = 9 -> "MAT3" [] itemSize = 16 -> "MAT4"
      [] OTHER -> "undefined"

\* a call without the optional geometry argument
NoGeometry == [given |-> FALSE, index |-> Null]

\* processAccessor(attribute, geometry?, start?, count?)
ProcessAccessor(w, attribute, geometry, start0, count0) ==
    LET componentType == ComponentTypeOf(attribute.ctor)
        start == IF start0 = Undefined THEN 0 ELSE start0
        count == IF count0 = Undefined THEN attribute.count ELSE count0
        bufferViewTarget ==
            IF geometry.given
            THEN (IF attribute.id = geometry.index THEN ELEMENT_ARRAY_BUFFER ELSE ARRAY_BUFFER)
            ELSE Undefined
        Push(bv) ==
            LET WithBounds(minMax) ==
                    Ret([bv.w EXCEPT !.json.accessors =
                             Append(@, [ bufferView |-> bv.ret.id,
                                         byteOffset |-> Undefined,
                                         componentType |-> componentType,
                                         count |-> count,
                                         max |-> minMax.max,
                                         min |-> minMax.min,
                                         type |-> AccessorType(attribute.itemSize),
                                         normalized |-> attribute.normalized ])],
                        Len(w.json.accessors))
            IN  Bind(getMinMax(attribute, start, count), WithBounds)
    IN  IF w.thrown # "" THEN Ret(w, Undefined)
        ELSE IF componentType = Undefined
        THEN Throw(w, "Unsupported bufferAttribute component type")
        ELSE IF count = 0 THEN Ret(w, Null)
        ELSE Bind(ProcessBufferView(w, attribute, componentType, start, count, bufferViewTarget), Push)

(***************************************************************************)
(* The inputs a scene is built from: buffer attributes, geometries,        *)
(* images, textures and materials, each named by a small integer.          *)
(***************************************************************************)
\* a BufferAttribute: its identity, the constructor of its array, itemSize,
\* count, the normalized flag, and whether its vectors have length 1
Attribute(id, ctor, itemSize, count, unit) ==
    [ id |-> id, ctor |-> ctor, itemSize |-> itemSize, count |-> count,
      array |-> SampleArray(id, itemSize * count), normalized |-> FALSE, unit |-> unit ]

Attributes ==
    << Attribute(1, "Float32Array", 3, 3, FALSE),    \* position
       Attribute(2, "Uint8Array", 3, 3, FALSE),      \* color
       Attribute(3, "Uint16Array", 1, 3, FALSE),     \* an index
       Attribute(4, "Float32Array", 3, 0, FALSE),    \* empty position
       Attribute(5, "Float64Array", 3, 3, FALSE),    \* unsupported storage
       Attribute(6, "Int16Array", 3, 3, FALSE),      \* quantized position
       Attribute(7, "Float32Array", 3, 3, FALSE),    \* normal, not of length 1
       Attribute(8, "Float32Array", 4, 3, FALSE),    \* skinIndex held as floats
       Attribute(9, "Float32Array", 3, 3, FALSE),    \* a morph target's position
       Attribute(10, "Float32Array", 3, 3, FALSE),   \* another morph target's position
       Attribute(11, "Float32Array", 3, 3, TRUE),    \* normal of length 1
       Attribute(12, "Uint16Array", 1, 0, FALSE) >>  \* an empty index

\* a geometry: geometry.attributes in insertion order, geometry.index, and
\* geometry.morphAttributes (per name the attributes of the morph targets)
Geometry(attributes, index, morphAttributes) ==
    [ attributes |-> attributes, index |-> index, morphAttributes |-> morphAttributes,
      groups |-> <<>> ]

\* a group of geometry.groups
Group(materialIndex, start, count) ==
    [materialIndex |-> materialIndex, start |-> start, count |-> count]

\* a geometry with groups
GroupedGeometry(attributes, index, groups) ==
    [Geometry(attributes, index, <<>>) EXCEPT !.groups = groups]

AttributeEntry(name, attribute) == [name |-> name, attribute |-> attribute]

Geometries ==
    << Geometry(<<AttributeEntry("position", 1), AttributeEntry("color", 2)>>, 3, <<>>),
       Geometry(<<AttributeEntry("position", 1)>>, Null, <<>>),
       Geometry(<<AttributeEntry("position", 4)>>, Null, <<>>),
       Geometry(<<AttributeEntry("position", 5)>>, Null, <<>>),
       Geometry(<<AttributeEntry("position", 6)>>, Null, <<>>),
       Geometry(<<AttributeEntry("position", 1), AttributeEntry("normal", 7)>>, Null, <<>>),
       Geometry(<<AttributeEntry("position", 1), AttributeEntry("normal", 7),
                  AttributeEntry("skinIndex", 8), AttributeEntry("temperature", 2)>>, Null, <<>>),
       Geometry(<<AttributeEntry("position", 1), AttributeEntry("normal", 11)>>, Null,
                <<[name |-> "position", targets |-> <<9>>]>>),
       Geometry(<<AttributeEntry("position", 6)>>, Null, <<[name |-> "position", targets |-> <<10>>]>>),
       Geometry(<<AttributeEntry("position", 9)>>, Null, <<[name |-> "position", targets |-> <<1>>]>>),
       \* 11: a morph target without data
       Geometry(<<AttributeEntry("position", 1)>>, Null, <<[name |-> "position", targets |-> <<4>>]>>),
       \* 12: indexed, two groups
       GroupedGeometry(<<AttributeEntry("position", 1), AttributeEntry("color", 2)>>, 3,
                       <<Group(0, 0, 2), Group(1, 2, 1)>>),
       \* 13: not indexed, two groups, the second one empty
       GroupedGeometry(<<AttributeEntry("position", 1)>>, Null,
                       <<Group(0, 0, 3), Group(1, 3, 0)>>),
       \* 14: a normal that is not normalized, then an attribute of unsupported storage
       Geometry(<<AttributeEntry("position", 1), AttributeEntry("normal", 7),
                  AttributeEntry("uv", 5)>>, Null, <<>>),
       \* 15: an index without data
       Geometry(<<AttributeEntry("position", 1)>>, 12, <<>>) >>

\* image sources: whether the canvas can draw them, and the size of the encoded blob
Images ==
    << [drawable |-> TRUE, size |-> 5],
       [drawable |-> TRUE, size |-> 8],
       [drawable |-> FALSE, size |-> 0] >>

\* a texture: map.image, map.userData.mimeType, map.flipY, whether offset,
\* rotation or repeat differ from their defaults, and whether it is a
\* CompressedTexture
Texture(image, mimeType, transformed, compressed) ==
    [ image |-> image, mimeType |-> mimeType, flipY |-> TRUE, transformed |-> transformed,
      compressed |-> compressed ]

Textures ==
    << Texture(1, "image/png", FALSE, FALSE),
       Texture(2, "image/jpeg", FALSE, FALSE),
       Texture(3, "image/png", FALSE, FALSE),
       Texture(2, "image/gif", FALSE, FALSE),
       Texture(1, "image/webp", FALSE, FALSE),
       Texture(1, "image/png", TRUE, FALSE),
       Texture(2, "image/png", FALSE, TRUE) >>    \* a CompressedTexture

\* the objects decompress() makes are numbered from here on
FirstDecompressed == 100

\* the texture decompress(map) returns: a new texture around a new canvas the
\* source was drawn into. Two calls never return the same object: the number
\* tells them apart by the length json.textures has at the call.
Decompressed(w, map) == FirstDecompressed + 10 * Len(w.json.textures) + map

\* the source texture a texture object stands for
SourceTexture(map) == IF map >= FirstDecompressed THEN map % 10 ELSE map

\* the fields of a texture object; a decompressed texture has a canvas of its
\* own as image and no userData.mimeType ("")
TextureOf(map) ==
    IF map >= FirstDecompressed
    THEN [ image |-> map, mimeType |-> "", flipY |-> TRUE, transformed |-> FALSE,
           compressed |-> FALSE ]
    ELSE Textures[map]

\* the image source behind an image object; a canvas can always be drawn
ImageOf(image) ==
    IF image >= FirstDecompressed
    THEN [drawable |-> TRUE, size |-> Images[Textures[SourceTexture(image)].image].size]
    ELSE Images[image]

\* a material: isShaderMaterial, map, emissiveMap, isMeshBasicMaterial, and
\* the names in userData.gltfExtensions
Material(isShaderMaterial, map, emissiveMap, basic, gltfExtensions) ==
    [ isShaderMaterial |-> isShaderMaterial, map |-> map, emissiveMap |-> emissiveMap,
      basic |-> basic, gltfExtensions |-> gltfExtensions ]

Materials ==
    << Material(FALSE, Null, Null, FALSE, <<>>),
       Material(FALSE, 1, Null, FALSE, <<>>),
       Material(FALSE, 2, Null, FALSE, <<>>),
       Material(TRUE, Null, Null, FALSE, <<>>),
       Material(FALSE, 3, Null, FALSE, <<>>),
       Material(FALSE, 4, Null, FALSE, <<>>),
       Material(FALSE, 5, Null, FALSE, <<>>),
       Material(FALSE, 6, Null, TRUE, <<"VENDOR_custom", "KHR_materials_unlit">>),
       Material(FALSE, 1, 1, FALSE, <<>>),      \* one texture in two slots
       Material(FALSE, 2, 1, FALSE, <<>>),      \* two textures
       Material(FALSE, 7, Null, FALSE, <<>>),   \* a compressed texture
       Material(FALSE, 7, 7, FALSE, <<>>),      \* the compressed texture in two slots
       Material(FALSE, Null, 7, FALSE, <<>>),
       Material(TRUE, 1, Null, FALSE, <<>>) >>  \* a ShaderMaterial with a texture

\* the arrays a mesh.material can be; a mesh names array k by FirstArray + k
MaterialArrays == << <<1, 2>>, <<2, 1>>, <<1, 5>>, <<1>>, <<1, 4>> >>

FirstArray == 100

\* Array.isArray(mesh.material)
IsArray(material) == material > FirstArray

\* `isMultiMaterial ? mesh.material : [mesh.material]`
MaterialsOf(material) ==
    IF IsArray(material) THEN MaterialArrays[material - FirstArray] ELSE <<material>>

(***************************************************************************)
(* Plug-ins. Factory f of the exporter makes plug-in f of a writer:        *)
(* 1 GLTFMaterialsUnlitExtension, 2 GLTFMeshGpuInstancing, the others are  *)
(* plug-ins of the caller, which look at what they are handed and change   *)
(* nothing.                                                                *)
(***************************************************************************)
KHR_MESH_QUANTIZATION == "KHR_mesh_quantization"

\* object[name] = true on an object used as a set of names
DeclareExtension(names, name) == IF InSeq(name, names) THEN names ELSE Append(names, name)

\* `ext.hook && ext.hook(...)`: the hooks plug-in f has
Implements(f, hook) ==
    CASE f = 1 -> hook = "writeMaterial"
      [] f = 2 -> hook = "writeNode"
      [] f = 3 -> hook \in {"beforeParse", "writeTexture", "writeMesh", "afterParse"}
      [] OTHER -> TRUE

\* GLTFMaterialsUnlitExtension.writeMaterial
UnlitWriteMaterial(r, material) ==
    IF ~Materials[material].basic THEN r
    ELSE [ w |-> [r.w EXCEPT !.extensionsUsed = DeclareExtension(@, "KHR_materials_unlit")],
           def |-> [r.def EXCEPT !.extensions = DeclareExtension(@, "KHR_materials_unlit")] ]

\* GLTFMeshGpuInstancing.writeNode, for a mesh of two instances and no instanceColor
GpuInstancingWriteNode(r, isInstancedMesh, object) ==
    LET Attr(k, itemSize) == [ id |-> 300 + 3 * object + k, ctor |-> "Float32Array",
                               itemSize |-> itemSize, count |-> 2,
                               array |-> SampleArray(k, 2 * itemSize), normalized |-> FALSE ]
        Rotation(t) == ProcessAccessor(t.w, Attr(1, 4), NoGeometry, Undefined, Undefined)
        Scale(t, q) ==
            LET Done(sc) ==
                    [ w |-> [sc.w EXCEPT
                                !.extensionsUsed = DeclareExtension(@, "EXT_mesh_gpu_instancing"),
                                !.extensionsRequired =
                                    DeclareExtension(@, "EXT_mesh_gpu_instancing")],
                      def |-> [r.def EXCEPT
                                  !.extensions = DeclareExtension(@, "EXT_mesh_gpu_instancing"),
                                  !.instancing = <<t.ret, q.ret, sc.ret>>] ]
            IN  Bind(ProcessAccessor(q.w, Attr(2, 3), NoGeometry, Undefined, Undefined), Done)
    IN  IF ~isInstancedMesh THEN r
        ELSE Bind2(ProcessAccessor(r.w, Attr(0, 3), NoGeometry, Undefined, Undefined),
                   Rotation, Scale)

\* one plug-in's hook, called with the entity and its definition
PluginCall(r, f, hook, entity, isInstancedMesh) ==
    CASE f = 1 /\ hook = "writeMaterial" -> UnlitWriteMaterial(r, entity)
      [] f = 2 /\ hook = "writeNode" -> GpuInstancingWriteNode(r, isInstancedMesh, entity)
      [] OTHER -> r

InvokeOrderReversed(plugins) == ReverseSeq(plugins)

\* _invokeAll: `for (let i = 0, il = this.plugins.length; i < il; i++)`
InvokeOrder(plugins) == plugins

\* the lengths of the document's arrays
Tally(json) ==
    [ scenes |-> Len(json.scenes), nodes |-> Len(json.nodes), meshes |-> Len(json.meshes),
      materials |-> Len(json.materials), textures |-> Len(json.textures),
      skins |-> Len(json.skins), animations |-> Len(json.animations) ]

\* the plug-in called is noted in the history of the broadcast under way
NoteCall(w, f) == [w EXCEPT !.broadcasts[Len(w.broadcasts)].called = Append(@, f)]

RECURSIVE InvokePlugins(_, _, _, _, _, _)
InvokePlugins(r, order, i, hook, entity, isInstancedMesh) ==
    LET Rest(x) == InvokePlugins(x, order, i + 1, hook, entity, isInstancedMesh)
    IN  IF i > Len(order) THEN r
        ELSE IF ~Implements(order[i], hook) THEN Rest(r)
        ELSE Bind(PluginCall([r EXCEPT !.w = NoteCall(r.w, order[i])],
                             order[i], hook, entity, isInstancedMesh), Rest)

\* _invokeAll(ext => ext.hook && ext.hook(entity, def)); `cached` and `index`
\* note whether the entity was in its cache and how long its array was
InvokeAll(w, hook, entity, def, cached, index, isInstancedMesh) ==
    LET noted == [w EXCEPT !.broadcasts =
                     Append(@, [ hook |-> hook, entity |-> entity, called |-> <<>>,
                                 cached |-> cached, index |-> index,
                                 tally |-> Tally(w.json) ])]
    IN  InvokePlugins([w |-> noted, def |-> def], InvokeOrder(w.plugins), 1, hook, entity,
                      isInstancedMesh)

(***************************************************************************)
(* Material and texture pipeline.                                          *)
(***************************************************************************)
\* getToBlobPromise: the encode settles at once, to a blob or to a rejection
ToBlobState(mimeType) ==
    IF mimeType \in {"image/jpeg", "image/png"} THEN "blob" ELSE "rejected"

\* the index processImage reserves for the image definition it is about to push
ImageIndexAtDiscovery(w) == Len(w.json.images)

\* processImage(image, format, flipY, mimeType)
ProcessImage(w, image, flipY, mimeType) ==
    LET key == <<image, mimeType, flipY>>
        index == ImageIndexAtDiscovery(w)
        encode == [ imageDef |-> index, image |-> image, mimeType |-> mimeType,
                    size |-> ImageOf(image).size, state |-> ToBlobState(mimeType),
                    bufferViewIndex |-> Undefined ]
        imageDef == [ mimeType |-> mimeType,
                      bufferView |-> Absent,
                      uri |-> IF w.options.binary THEN Absent ELSE image ]
        pushed == [w EXCEPT !.json.images = Append(@, imageDef),
                            !.cache.images = MapSet(@, key, index)]
    IN  IF w.thrown # "" THEN Ret(w, Undefined)
        ELSE IF image = Null THEN Throw(w, "No valid image data found")
        ELSE IF MapHas(w.cache.images, key) THEN Ret(w, w.cache.images[key])
        ELSE IF ~ImageOf(image).drawable THEN Throw(w, "Invalid image type")
        ELSE IF w.options.binary
        THEN Ret([pushed EXCEPT !.pending = Append(@, encode)], index)
        ELSE Ret(pushed, index)

\* processSampler
ProcessSampler(w, map) ==
    Ret([w EXCEPT !.json.samplers = Append(@, [texture |-> map])], Len(w.json.samplers))


\* processTexture's `map` after `if (map instanceof CompressedTexture) map =
\* decompress(map, options.maxTextureSize)`
Readable(w, map) == IF TextureOf(map).compressed THEN Decompressed(w, map) ELSE map

\* processTexture(map), `source` being the texture the caller passed
ProcessTexture(w, source) ==
    LET map == Readable(w, source)
        declared == TextureOf(map).mimeType
        \* 'image/webp' is encoded as PNG; processImage's default is 'image/png'
        mimeType == IF declared \in {"image/webp", ""} THEN "image/png" ELSE declared
        Store(h) ==
            Ret([h.w EXCEPT !.json.textures = Append(@, h.def),
                            !.cache.textures = MapSet(@, map, Len(h.w.json.textures))],
                Len(h.w.json.textures))
        Push(smp, img) ==
            IF img.w.thrown # "" THEN Ret(img.w, Undefined)
            ELSE Bind(InvokeAll(img.w, "writeTexture", map,
                                [sampler |-> smp.ret, source |-> img.ret],
                                MapHas(img.w.cache.textures, map), Len(img.w.json.textures),
                                FALSE),
                      Store)
        Image(smp) ==
            ProcessImage(smp.w, TextureOf(map).image, TextureOf(map).flipY, mimeType)
    IN  IF w.thrown # "" THEN Ret(w, Undefined)
        ELSE IF MapHas(w.cache.textures, source) THEN Ret(w, w.cache.textures[source])
        ELSE Bind2(ProcessSampler(w, map), Image, Push)

\* applyTextureTransform(mapDef, texture)
ApplyTextureTransform(w, texture) ==
    IF TextureOf(texture).transformed
    THEN [w EXCEPT !.extensionsUsed = DeclareExtension(@, "KHR_texture_transform")]
    ELSE w

RECURSIVE DeclareAll(_, _)
DeclareAll(names, more) ==
    IF more = <<>> THEN names ELSE DeclareAll(DeclareExtension(names, more[1]), Tail(more))

\* serializeUserData(object, objectDef), for the names in userData.gltfExtensions
SerializeUserData(w, gltfExtensions, def) ==
    IF w.options.includeCustomExtensions /\ gltfExtensions # <<>>
    THEN [ w |-> [w EXCEPT !.extensionsUsed = DeclareAll(@, gltfExtensions)],
           def |-> [def EXCEPT !.extensions = DeclareAll(@, gltfExtensions)] ]
    ELSE [ w |-> w, def |-> def ]

\* processMaterial: one of its `if (material.xxxMap)` blocks; the map
\* definition is the texture's index (Absent when the slot is empty)
MapDef(w, map) ==
    IF w.thrown # "" THEN Ret(w, Undefined)
    ELSE IF map = Null THEN Ret(w, Absent)
    ELSE LET Transform(tex) ==
                 IF tex.w.thrown # "" THEN tex
                 ELSE Ret(ApplyTextureTransform(tex.w, map), tex.ret)
         IN  Bind(ProcessTexture(w, map), Transform)

\* (no material counts as a ShaderMaterial)
NoShaderMaterial(material) == FALSE

\* material.isShaderMaterial
IsShaderMaterial(material) == Materials[material].isShaderMaterial

\* processMaterial
ProcessMaterial(w, material) ==
    LET map == Materials[material].map
        emissiveMap == Materials[material].emissiveMap
        Store(h) ==
            Ret([h.w EXCEPT !.json.materials = Append(@, h.def),
                            !.cache.materials = MapSet(@, material, Len(h.w.json.materials))],
                Len(h.w.json.materials))
        Hook(u) ==
            Bind(InvokeAll(u.w, "writeMaterial", material, u.def,
                           MapHas(u.w.cache.materials, material), Len(u.w.json.materials),
                           FALSE),
                 Store)
        Push(tex, emissive) ==
            IF emissive.w.thrown # "" THEN Ret(emissive.w, Undefined)
            ELSE Bind(SerializeUserData(
                          emissive.w,
                          Materials[material].gltfExtensions,
                          [ name |-> material, baseColorTexture |-> tex.ret,
                            emissiveTexture |-> emissive.ret,
                            textureTransform |-> map # Null /\ TextureOf(map).transformed,
                            extensions |-> <<>> ]),
                      Hook)
        Emissive(tex) == MapDef(tex.w, emissiveMap)
    IN  IF w.thrown # "" THEN Ret(w, Undefined)
        ELSE IF MapHas(w.cache.materials, material) THEN Ret(w, w.cache.materials[material])
        ELSE IF IsShaderMaterial(material) THEN Ret(w, Null)
        ELSE Bind2(MapDef(w, map), Emissive, Push)

(***************************************************************************)
(* Mesh pipeline.                                                          *)
(***************************************************************************)
GeometryArg(geometry) == [given |-> TRUE, index |-> Geometries[geometry].index]

\* getUID(attribute, isRelativeCopy): a number of its own for every pair of an
\* attribute object and the flag, modelled by the pair
GetUID(attribute, isRelativeCopy) == <<attribute.id, isRelativeCopy>>

\* the identity of an object made now from `source`: copies made at different
\* lengths of json.accessors, or of different sources, are different objects
NewObject(w, source) == 1000 + 100 * Len(w.json.accessors) + source.id

\* the identity of a morph attribute's relative copy (attribute.clone())
NewRelativeCopy(w, source) == 10000 + NewObject(w, source)

\* the catalogue attribute an object is, or is a copy of
CopiedFrom(id) == IF id >= 1000 THEN id % 100 ELSE id
IsRelativeCopy(id) == id >= 10000

\* isNormalizedNormalAttribute
IsNormalizedNormalAttribute(w, normal) ==
    IF MapHas(w.cache.attributesNormalized, normal.id) THEN FALSE ELSE normal.unit

CloneAlways(w, normal) == [normal EXCEPT !.id = NewObject(w, normal), !.unit = TRUE]

\* createNormalizedNormalAttribute: the clone made for this attribute before,
\* or a new one
NormalizedClone(w, normal) ==
    IF MapHas(w.cache.attributesNormalized, normal.id)
    THEN w.cache.attributesNormalized[normal.id]
    ELSE [normal EXCEPT !.id = NewObject(w, normal), !.unit = TRUE]

\* the attribute or index a geometry holds in place of its own
Held(geometries, geometry, name) == MapGet(geometries, <<geometry, name>>)

\* geometry.setAttribute(name, attribute) and geometry.setIndex(index) with an
\* object that is not the geometry's own
SetAttribute(geometries, geometry, name, id) == MapSet(geometries, <<geometry, name>>, id)

\* geometry.setAttribute(name, original) and geometry.setIndex(original)
PutBack(geometries, geometry, name) ==
    [k \in DOMAIN geometries \ {<<geometry, name>>} |-> geometries[k]]

\* processMesh before the loop: a normal attribute that is not normalized is
\* replaced by its normalized clone (and put back after the loop)
WithNormalizedNormal(w, geometry) ==
    LET entries == Geometries[geometry].attributes
        Clone(k) == NormalizedClone(w, Attributes[entries[k].attribute])
        Replaced(k) ==
            entries[k].name = "normal"
            /\ ~IsNormalizedNormalAttribute(w, Attributes[entries[k].attribute])
    IN  [ w |-> IF \E k \in 1..Len(entries) : Replaced(k)
                THEN LET k == CHOOSE i \in 1..Len(entries) : Replaced(i)
                     IN  [w EXCEPT
                            !.cache.attributesNormalized = MapSet(@, entries[k].attribute, Clone(k)),
                            !.geometries = SetAttribute(@, geometry, "normal", Clone(k).id)]
                ELSE w,
          attributes |-> [k \in 1..Len(entries) |->
                             IF Replaced(k) THEN Clone(k) ELSE Attributes[entries[k].attribute]] ]

\* nameConversion[attributeName] || attributeName.toUpperCase(), with '_' put
\* before a name the glTF specification does not list
AttributeName(name) ==
    CASE name = "position" -> "POSITION"
      [] name = "normal" -> "NORMAL"
      [] name = "color" -> "COLOR_0"
      [] name = "uv" -> "TEXCOORD_0"
      [] name = "skinIndex" -> "JOINTS_0"
      [] name = "skinWeight" -> "WEIGHTS_0"
      [] OTHER -> "_CUSTOM"

\* attributeName.split('_', 1)[0]
NamePrefix(attributeName) ==
    CASE attributeName = "COLOR_0" -> "COLOR"
      [] attributeName = "TEXCOORD_0" -> "TEXCOORD"
      [] attributeName = "JOINTS_0" -> "JOINTS"
      [] attributeName = "WEIGHTS_0" -> "WEIGHTS"
      [] OTHER -> attributeName

\* KHR_mesh_quantization_ExtraAttrTypes[prefix].includes(attrType)
ExtraAttrType(prefix, ctor, normalized) ==
    CASE prefix = "POSITION" -> TRUE
      [] prefix \in {"NORMAL", "TANGENT"} -> normalized /\ ctor \in {"Int8Array", "Int16Array"}
      [] prefix = "TEXCOORD" -> ~(normalized /\ ctor \in {"Uint8Array", "Uint16Array"})
      [] OTHER -> FALSE

RequireOnly(w, name) == [w EXCEPT !.extensionsRequired = DeclareExtension(@, name)]

\* extensionsUsed[name] = true; extensionsRequired[name] = true
UseAndRequire(w, name) ==
    [w EXCEPT !.extensionsUsed = DeclareExtension(@, name),
              !.extensionsRequired = DeclareExtension(@, name)]

\* detectMeshQuantization(attributeName, attribute)
DetectMeshQuantization(w, attributeName, attribute) ==
    IF InSeq(KHR_MESH_QUANTIZATION, w.extensionsUsed) THEN w
    ELSE IF attribute.ctor \notin {"Int8Array", "Uint8Array", "Int16Array", "Uint16Array"} THEN w
    ELSE IF ExtraAttrType(NamePrefix(attributeName), attribute.ctor, attribute.normalized)
    THEN UseAndRequire(w, KHR_MESH_QUANTIZATION)
    ELSE w

\* `new BufferAttribute(new Uint16Array(array), ...)` for a JOINTS_0 attribute
\* that is held neither as Uint16Array nor as Uint8Array
ModifiedAttribute(w, attributeName, attribute) ==
    IF attributeName = "JOINTS_0" /\ attribute.ctor \notin {"Uint16Array", "Uint8Array"}
    THEN [attribute EXCEPT !.ctor = "Uint16Array", !.id = NewObject(w, attribute)]
    ELSE attribute

\* processMesh's loop over geometry.attributes, from entry k on; `sources` are
\* the attribute objects the geometry holds during the loop and `attributes`
\* is the primitive's attribute table built so far.
\* An entry's `source` names the attribute object the geometry holds.
RECURSIVE MeshAttributes(_, _, _, _, _)
MeshAttributes(w, geometry, sources, k, attributes) ==
    LET attribute == sources[k]
        source == Geometries[geometry].attributes[k].attribute
        attributeName == AttributeName(Geometries[geometry].attributes[k].name)
        Detected(x) ==
            IF attributeName = "_CUSTOM" THEN x
            ELSE DetectMeshQuantization(x, attributeName, attribute)
        Rest(acc) ==
            IF acc.w.thrown = "" /\ acc.ret # Null
            THEN MeshAttributes(
                     [Detected(acc.w) EXCEPT
                         !.cache.attributes = MapSet(@, GetUID(attribute, FALSE), acc.ret)],
                     geometry, sources, k + 1,
                     Append(attributes, [name |-> attributeName, accessor |-> acc.ret,
                                         source |-> source]))
            ELSE MeshAttributes(acc.w, geometry, sources, k + 1, attributes)
        Cached(x) ==
            MeshAttributes(x, geometry, sources, k + 1,
                Append(attributes, [name |-> attributeName,
                                    accessor |-> x.cache.attributes[GetUID(attribute, FALSE)],
                                    source |-> source]))
    IN  IF k > Len(sources) \/ w.thrown # ""
        THEN [w |-> w, attributes |-> attributes]
        ELSE IF MapHas(w.cache.attributes, GetUID(attribute, FALSE))
        THEN Cached(w)
        ELSE Bind(ProcessAccessor(w, ModifiedAttribute(w, attributeName, attribute),
                                  GeometryArg(geometry), Undefined, Undefined), Rest)

\* mesh.morphTargetInfluences.length: one influence per morph target
MorphTargetInfluences(geometry) ==
    IF Geometries[geometry].morphAttributes = <<>> THEN 0
    ELSE Len(Geometries[geometry].morphAttributes[1].targets)

\* geometry.attributes[attributeName]
BaseAttribute(geometry, name) ==
    LET entries == Geometries[geometry].attributes
    IN  Attributes[entries[CHOOSE k \in 1..Len(entries) : entries[k].name = name].attribute]

\* the key processMesh looks a morph attribute's accessor up with
MorphLookupKey(attribute, baseAttribute) == GetUID(attribute, TRUE)

\* the key processMesh stores a morph attribute's accessor under
MorphStoreKey(attribute, baseAttribute) == GetUID(baseAttribute, TRUE)

\* processMesh's loops over mesh.morphTargetInfluences (i) and
\* geometry.morphAttributes (k); `target` is the table of target i so far.
\* An entry's `source` names the attribute object it was asked for.
RECURSIVE MorphTargets(_, _, _, _, _, _)
MorphTargets(w, geometry, i, k, target, targets) ==
    LET morphAttributes == Geometries[geometry].morphAttributes
        attribute == Attributes[morphAttributes[k].targets[i]]
        gltfAttributeName == AttributeName(morphAttributes[k].name)
        baseAttribute == BaseAttribute(geometry, morphAttributes[k].name)
        relativeAttribute == [attribute EXCEPT !.id = NewRelativeCopy(w, attribute)]
        Entry(accessor) ==
            [name |-> gltfAttributeName, accessor |-> accessor, source |-> attribute.id]
        Rest(acc) ==
            IF acc.w.thrown # "" THEN [w |-> acc.w, targets |-> targets]
            ELSE MorphTargets(
                     [acc.w EXCEPT !.cache.attributes =
                         MapSet(@, MorphStoreKey(attribute, baseAttribute), acc.ret)],
                     geometry, i, k + 1, Append(target, Entry(acc.ret)), targets)
    IN  IF i > MorphTargetInfluences(geometry) \/ w.thrown # ""
        THEN [w |-> w, targets |-> targets]
        ELSE IF k > Len(morphAttributes)
        THEN MorphTargets(w, geometry, i + 1, 1, <<>>, Append(targets, target))
        ELSE IF MapHas(w.cache.attributes, MorphLookupKey(attribute, baseAttribute))
        THEN MorphTargets(w, geometry, i, k + 1,
                 Append(target,
                     Entry(w.cache.attributes[MorphLookupKey(attribute, baseAttribute)])),
                 targets)
        ELSE Bind(ProcessAccessor(w, relativeAttribute, GeometryArg(geometry),
                                  Undefined, Undefined), Rest)

GeometryAlone(mesh) == <<mesh.geometry>>

\* [geometry.uuid, ...material uuids].join(':'): geometries and materials are
\* named by their uuid here
MeshCacheKey(mesh) == <<mesh.geometry>> \o MaterialsOf(mesh.material)

\* the groups processMesh's loop runs over
GroupsOf(mesh) ==
    IF IsArray(mesh.material) THEN Geometries[mesh.geometry].groups
    ELSE <<Group(0, Undefined, Undefined)>>

\* the index geometry.setIndex(indices) makes of the array [0 .. n)
ForcedIndex(w, geometry) ==
    LET n == BaseAttribute(geometry, "position").count
    IN  [ id |-> NewObject(w, [id |-> 50]), ctor |-> "Uint16Array", itemSize |-> 1,
          count |-> n, array |-> [k \in 1..n |-> k - 1], normalized |-> FALSE,
          unit |-> FALSE ]

\* the key of a group's index accessor in cache.attributes
IndexCacheKey(index, group) ==
    IF group.start # Undefined \/ group.count # Undefined
    THEN GetUID(index, FALSE) \o <<group.start, group.count>>
    ELSE GetUID(index, FALSE)

\* `if (primitive.indices === null) delete primitive.indices`
DeleteNull(accessor) == IF accessor = Null THEN Absent ELSE accessor

\* processMesh's loop over the groups, from group i on; `index` is <<the index
\* the geometry holds>>, or <<>> for none
RECURSIVE MeshPrimitives(_, _, _, _, _, _)
MeshPrimitives(w, mesh, att, index, i, primitives) ==
    LET group == GroupsOf(mesh)[i]
        cacheKey == IndexCacheKey(index[1], group)
        Primitive(idx, mat) ==
            [ mode |-> TRIANGLES,
              attributes |-> att.attributes,
              targets |-> att.targets,
              indices |-> DeleteNull(idx.ret),
              material |-> IF mat.ret = Null THEN Absent ELSE mat.ret ]
        Rest(idx, mat) ==
            IF mat.w.thrown # "" THEN [w |-> mat.w, primitives |-> primitives]
            ELSE MeshPrimitives(mat.w, mesh, att, index, i + 1,
                                Append(primitives, Primitive(idx, mat)))
        MaterialOf(idx) ==
            ProcessMaterial(idx.w, MaterialsOf(mesh.material)[group.materialIndex + 1])
        CacheIndex(acc) ==
            IF acc.w.thrown # "" THEN acc
            ELSE Ret([acc.w EXCEPT !.cache.attributes = MapSet(@, cacheKey, acc.ret)], acc.ret)
        Indices ==
            IF index = <<>> THEN Ret(w, Absent)
            ELSE IF MapHas(w.cache.attributes, cacheKey)
            THEN Ret(w, w.cache.attributes[cacheKey])
            ELSE Bind(ProcessAccessor(w, index[1], [given |-> TRUE, index |-> index[1].id],
                                      group.start, group.count),
                      CacheIndex)
    IN  IF i > Len(GroupsOf(mesh)) \/ w.thrown # ""
        THEN [w |-> w, primitives |-> primitives]
        ELSE Bind2(Indices, MaterialOf, Rest)

\* processMesh
ProcessMesh(w, mesh) ==
    LET meshCacheKey == MeshCacheKey(mesh)
        geometry == Geometries[mesh.geometry]
        isMultiMaterial == IsArray(mesh.material)
        didForceIndices == isMultiMaterial /\ geometry.index = Null
        Store(h) ==
            Ret([h.w EXCEPT !.json.meshes = Append(@, h.def),
                            !.cache.meshes = MapSet(@, meshCacheKey, Len(h.w.json.meshes))],
                Len(h.w.json.meshes))
        Push(r) ==
            IF r.w.thrown # "" THEN Ret(r.w, Undefined)
            ELSE Bind(InvokeAll(
                          IF didForceIndices
                          THEN [r.w EXCEPT !.geometries = PutBack(@, mesh.geometry, "index")]
                          ELSE r.w,
                          "writeMesh", meshCacheKey, [primitives |-> r.primitives],
                          MapHas(r.w.cache.meshes, meshCacheKey), Len(r.w.json.meshes),
                          FALSE),
                      Store)
        Primitives(att) ==
            LET forced == ForcedIndex(att.w, mesh.geometry)
            IN  IF att.w.thrown # "" THEN Ret(att.w, Undefined)
                ELSE IF att.attributes = <<>> THEN Ret(att.w, Null)
                ELSE IF isMultiMaterial /\ geometry.groups = <<>> THEN Ret(att.w, Null)
                ELSE IF didForceIndices
                THEN Bind(MeshPrimitives(
                              [att.w EXCEPT !.geometries =
                                  SetAttribute(@, mesh.geometry, "index", forced.id)],
                              mesh, att, <<forced>>, 1, <<>>),
                          Push)
                ELSE Bind(MeshPrimitives(
                              att.w, mesh, att,
                              IF geometry.index = Null THEN <<>>
                              ELSE <<Attributes[geometry.index]>>,
                              1, <<>>),
                          Push)
        PutNormalBack(att) ==
            IF att.w.thrown # "" THEN att
            ELSE [att EXCEPT !.w.geometries = PutBack(@, mesh.geometry, "normal")]
        Loop(n) == Bind(MeshAttributes(n.w, mesh.geometry, n.attributes, 1, <<>>), PutNormalBack)
        Morph(n, att) ==
            IF att.w.thrown # "" \/ att.attributes = <<>>
            THEN [w |-> att.w, attributes |-> att.attributes, targets |-> <<>>]
            ELSE LET Both(mt) ==
                         [w |-> mt.w, attributes |-> att.attributes, targets |-> mt.targets]
                 IN  Bind(MorphTargets(att.w, mesh.geometry, 1, 1, <<>>, <<>>), Both)
    IN  IF w.thrown # "" THEN Ret(w, Undefined)
        ELSE IF MapHas(w.cache.meshes, meshCacheKey) THEN Ret(w, w.cache.meshes[meshCacheKey])
        ELSE Bind(Bind2(WithNormalizedNormal(w, mesh.geometry), Loop, Morph), Primitives)

\* processCamera
ProcessCamera(w, camera) ==
    Ret([w EXCEPT !.json.cameras = Append(@, [type |-> "perspective"])], Len(w.json.cameras))

(***************************************************************************)
(* The scene graph and the traversal.                                      *)
(*                                                                         *)
(* Objects are 1..NObj; parent 0 means top level. A top-level object is    *)
(* either a child of the input Scene (numbered 0) or is itself an element  *)
(* of the input array. Child lists are in ascending object number.         *)
(***************************************************************************)
NObj == 3       \* objects in the scene graph

Obj == 1..NObj
SceneId == 0

RECURSIVE SortedSeq(_)
SortedSeq(S) ==
    IF S = {} THEN <<>>
    ELSE LET m == CHOOSE x \in S : \A y \in S : x <= y
         IN  <<m>> \o SortedSeq(S \ {m})

\* object.children, and scene.children for the input Scene
Children(g, x) ==
    IF x = SceneId
    THEN SortedSeq({o \in Obj : g.parent[o] = 0 /\ g.inScene[o]})
    ELSE SortedSeq({o \in Obj : g.parent[o] = x})

\* the input array of parse: the Scene stands where its first child would
InputOf(g) ==
    LET tops == {o \in Obj : g.parent[o] = 0}
        first == {o \in tops : g.inScene[o] /\ \A p \in tops : (g.inScene[p] => o <= p)}
        items == SortedSeq({o \in tops : ~g.inScene[o]} \cup first)
    IN  [k \in 1..Len(items) |-> IF g.inScene[items[k]] THEN SceneId ELSE items[k]]

RECURSIVE Descendants(_, _)
Descendants(g, x) ==
    LET kids == Range(Children(g, x))
    IN  kids \cup UNION {Descendants(g, c) : c \in kids}

IsMesh(g, o) == g.type[o] \in {"Mesh", "SkinnedMesh", "InstancedMesh"}

EmptyNodeDef ==
    [ name |-> 0, mesh |-> Absent, camera |-> Absent, skin |-> Absent, children |-> <<>>,
      extensions |-> <<>>, instancing |-> <<>> ]

\* processNode: `if (object.isSkinnedMesh) this.skins.push(object)`
QueueSkin(w, g, object) ==
    IF g.type[object] = "SkinnedMesh" THEN [w EXCEPT !.skins = Append(@, object)] ELSE w

\* processNode up to its loop over the children
ProcessNodeEnter(w, g, object) ==
    LET nodeDef == [EmptyNodeDef EXCEPT !.name = object]
        Mesh(pm) ==
            [ w |-> IF pm.w.thrown # "" THEN pm.w ELSE QueueSkin(pm.w, g, object),
              nodeDef |-> IF pm.ret \in {Null, Undefined} THEN nodeDef
                          ELSE [nodeDef EXCEPT !.mesh = pm.ret] ]
        Camera(cam) ==
            [ w |-> QueueSkin(cam.w, g, object), nodeDef |-> [nodeDef EXCEPT !.camera = cam.ret] ]
    IN  IF IsMesh(g, object) THEN Bind(ProcessMesh(w, g.mesh[object]), Mesh)
        ELSE IF g.type[object] = "Camera" THEN Camera(ProcessCamera(w, object))
        ELSE [ w |-> QueueSkin(w, g, object), nodeDef |-> nodeDef ]

\* (the node is entered in nodeMap before its hooks run)
NodeMapWithSelf(w, object) == MapSet(w.nodeMap, object, Len(w.json.nodes))

\* this.nodeMap while the writeNode hooks of `object` run: nodeMap.set(object)
\* comes behind them
NodeMapAtHook(w, object) == w.nodeMap

\* processNode after the loop: writeNode is broadcast, then the node gets its
\* index and its nodeMap entry
ProcessNodeExit(w, g, object, nodeDef, children) ==
    LET atHook == [w EXCEPT !.nodeMap = NodeMapAtHook(w, object)]
        Store(h) ==
            [h.w EXCEPT !.json.nodes = Append(@, h.def),
                        !.nodeMap = MapSet(@, object, Len(h.w.json.nodes))]
    IN  Bind(InvokeAll(atHook, "writeNode", object, [nodeDef EXCEPT !.children = children],
                       MapHas(atHook.nodeMap, object), Len(atHook.json.nodes),
                       g.type[object] = "InstancedMesh"),
             Store)

\* processSkin
ProcessSkin(w, g, object) ==
    LET nodeIndex == MapGet(w.nodeMap, object)
        bones == g.bones[object]
        joints == [i \in 1..Len(bones) |-> MapGet(w.nodeMap, bones[i])]
        inverseBindMatrices == [ id |-> 100 + object, ctor |-> "Float32Array",
                                 itemSize |-> 16, count |-> Len(bones),
                                 array |-> SampleArray(object, 16 * Len(bones)),
                                 normalized |-> FALSE ]
        Push(acc) ==
            [acc.w EXCEPT
                !.json.skins = Append(@, [ inverseBindMatrices |-> acc.ret, joints |-> joints,
                                           skeleton |-> MapGet(w.nodeMap, bones[1]) ]),
                !.json.nodes[nodeIndex + 1].skin = Len(w.json.skins)]
    IN  IF bones = <<>> THEN w
        ELSE Bind(ProcessAccessor(w, inverseBindMatrices, NoGeometry, Undefined, Undefined), Push)

\* PATH_PROPERTIES[propertyName]; "" stands for undefined
PathProperty(propertyName) ==
    CASE propertyName = "scale" -> "scale"
      [] propertyName = "position" -> "translation"
      [] propertyName = "quaternion" -> "rotation"
      [] propertyName = "morphTargetInfluences" -> "weights"
      [] OTHER -> ""

\* PropertyBinding.findNode(root, nodeName): the root for an empty name or its
\* own, else the object of that name below the root, visible or not; Null if none.
FindNode(g, root, nodeName) ==
    IF nodeName = 0 \/ nodeName = root THEN root
    ELSE IF nodeName \in Descendants(g, root) THEN nodeName
    ELSE Null

\* propertyName !== 'morphTargetInfluences' || propertyIndex === undefined
LeftAsIs(track) == track.propertyName # "morphTargetInfluences" \/ track.targetIndex = Absent

\* node.morphTargetInfluences.length; Undefined where there is no such list:
\* only a mesh whose geometry has morph attributes carries one
NodeMorphTargets(g, node) ==
    IF node = Null \/ node = SceneId THEN Undefined
    ELSE IF IsMesh(g, node) /\ MorphTargetInfluences(g.mesh[node].geometry) > 0
    THEN MorphTargetInfluences(g.mesh[node].geometry)
    ELSE Undefined

\* clip.clone(): an object of its own, with clones of the tracks
CloneClip(clip) == [clip EXCEPT !.uuid = 0]

\* mergeMorphTargetTracks' loop over the source tracks, from track i on. The
\* keyframes of a track here are whole seconds from 0 on, so insertKeyframe
\* finds the times the merged track has and appends the later ones.
RECURSIVE MergeSourceTracks(_, _, _, _, _, _)
MergeSourceTracks(g, root, sourceTracks, i, tracks, mergedTracks) ==
    LET sourceTrack == sourceTracks[i]
        sourceTrackNode == FindNode(g, root, sourceTrack.nodeName)
        targetCount == NodeMorphTargets(g, sourceTrackNode)
        m == mergedTracks[sourceTrackNode]
    IN  IF i > Len(sourceTracks) THEN [thrown |-> "", tracks |-> tracks]
        ELSE IF LeftAsIs(sourceTrack)
        THEN MergeSourceTracks(g, root, sourceTracks, i + 1, Append(tracks, sourceTrack),
                               mergedTracks)
        ELSE IF sourceTrack.interpolation = "CUBICSPLINE"
        THEN [ thrown |-> "Cannot merge tracks with glTF CUBICSPLINE interpolation",
               tracks |-> tracks ]
        ELSE IF targetCount = Undefined
        THEN [thrown |-> "TypeError: Cannot read properties of undefined", tracks |-> tracks]
        ELSE IF sourceTrack.targetIndex = Undefined
        THEN [thrown |-> "Morph target name not found", tracks |-> tracks]
        ELSE IF ~MapHas(mergedTracks, sourceTrackNode)
        THEN MergeSourceTracks(g, root, sourceTracks, i + 1,
                 Append(tracks, [sourceTrack EXCEPT !.targetIndex = Absent,
                                                    !.valueSize = targetCount]),
                 MapSet(mergedTracks, sourceTrackNode, Len(tracks) + 1))
        ELSE MergeSourceTracks(g, root, sourceTracks, i + 1,
                 [tracks EXCEPT ![m].keys = IF sourceTrack.keys > @ THEN sourceTrack.keys ELSE @],
                 mergedTracks)

\* GLTFExporterUtils.mergeMorphTargetTracks(clip, root): `clip.tracks = tracks`
\* writes to the object it was handed, which is one of the caller's clips only
\* if it carries that clip's uuid
mergeMorphTargetTracks(w, g, clip, root) ==
    LET merged == MergeSourceTracks(g, root, clip.tracks, 1, <<>>, <<>>)
    IN  IF merged.thrown # "" THEN [w |-> Throw(w, merged.thrown).w, clip |-> clip]
        ELSE [ w |-> [w EXCEPT !.options.animations =
                          [k \in DOMAIN @ |->
                              IF @[k].uuid = clip.uuid
                              THEN [@[k] EXCEPT !.tracks = merged.tracks] ELSE @[k]]],
               clip |-> [clip EXCEPT !.tracks = merged.tracks] ]

\* the sampler's interpolation
Interpolation(track) ==
    CASE track.interpolation = "CUBICSPLINE" -> "CUBICSPLINE"
      [] track.interpolation = "DISCRETE" -> "STEP"
      [] OTHER -> "LINEAR"

\* processAnimation's loop over the tracks, from track i on
RECURSIVE AnimationTracks(_, _, _, _, _, _, _)
AnimationTracks(w, g, root, clip, i, samplers, channels) ==
    LET track == clip.tracks[i]
        trackNode == FindNode(g, root, track.nodeName)
        trackProperty == PathProperty(track.propertyName)
        perTarget == IF trackProperty = "weights"
                     THEN track.valueSize \div NodeMorphTargets(g, trackNode)
                     ELSE track.valueSize
        outputItemSize == IF track.interpolation = "CUBICSPLINE"
                          THEN perTarget \div 3 ELSE perTarget
        times == [ id |-> 200 + 2 * i, ctor |-> "Float32Array", itemSize |-> 1,
                   count |-> track.keys, array |-> [k \in 1..track.keys |-> k - 1],
                   normalized |-> FALSE ]
        values == [ id |-> 201 + 2 * i, ctor |-> "Float32Array", itemSize |-> outputItemSize,
                    count |-> (track.valueSize * track.keys) \div outputItemSize,
                    array |-> SampleArray(i, track.valueSize * track.keys),
                    normalized |-> FALSE ]
        channel == [ sampler |-> Len(samplers),
                     target |-> [node |-> MapGet(w.nodeMap, trackNode), path |-> trackProperty] ]
        Rest(inp, out) ==
            AnimationTracks(out.w, g, root, clip, i + 1,
                Append(samplers, [input |-> inp.ret, output |-> out.ret,
                                  interpolation |-> Interpolation(track)]),
                Append(channels, channel))
        Output(inp) == ProcessAccessor(inp.w, values, NoGeometry, Undefined, Undefined)
    IN  IF i > Len(clip.tracks) \/ w.thrown # ""
        THEN [w |-> w, samplers |-> samplers, channels |-> channels]
        ELSE IF trackNode = Null \/ trackProperty = ""
        THEN AnimationTracks(w, g, root, clip, i + 1, samplers, channels)
        ELSE IF trackProperty = "weights" /\ NodeMorphTargets(g, trackNode) = Undefined
        THEN [ w |-> Throw(w, "TypeError: Cannot read properties of undefined").w,
               samplers |-> samplers, channels |-> channels ]
        ELSE Bind2(ProcessAccessor(w, times, NoGeometry, Undefined, Undefined), Output, Rest)

\* processAnimation(clip, root)
ProcessAnimation(w, g, clip, root) ==
    LET Push(r) ==
            IF r.w.thrown # "" THEN r.w
            ELSE [r.w EXCEPT !.json.animations =
                     Append(@, [ name |-> clip.name, samplers |-> r.samplers,
                                 channels |-> r.channels ])]
        Tracks(merged) ==
            IF merged.w.thrown # "" THEN merged.w
            ELSE Bind(AnimationTracks(merged.w, g, root, merged.clip, 1, <<>>, <<>>), Push)
    IN  Bind(mergeMorphTargetTracks(w, g, CloneClip(clip), root), Tracks)

(***************************************************************************)
(* Spec: one parse() call.                                                 *)
(*                                                                         *)
(* processInput is synchronous; it is cut into steps (one per node entry,  *)
(* node exit, scene, skin and animation) so that the order inside it can   *)
(* be stated. pc and stack keep the steps in the code's order. The steps   *)
(* of the pending image encodes run only once write() waits or has failed. *)
(***************************************************************************)
Input == InputOf(graph)

Top == stack[Len(stack)]

Frame(kind, obj, kids, def) ==
    [kind |-> kind, obj |-> obj, kids |-> kids, i |-> 1, out |-> <<>>, def |-> def]

VisitOrderReversed(kids) == ReverseSeq(kids)

\* the loops over children in processNode and processScene run in list order
VisitOrder(kids) == kids

\* write(): Object.assign of the defaults and the options; animations force trs
MergeOptions(opts) ==
    [ binary |-> opts.binary,
      trs |-> IF Len(opts.animations) > 0 THEN TRUE ELSE opts.trs,
      onlyVisible |-> opts.onlyVisible,
      animations |-> opts.animations,
      includeCustomExtensions |-> opts.includeCustomExtensions ]

\* parse(): one plug-in per registered factory, in the order of the list
PluginsOf(callbacks) == [i \in 1..Len(callbacks) |-> callbacks[i]]

\* parse() and write() up to the call of processInput
Write ==
    /\ pc = "start"
    /\ writer' = [writer EXCEPT !.plugins = PluginsOf(pluginCallbacks),
                                !.options = MergeOptions(options)]
    /\ pc' = "beforeParse"
    /\ UNCHANGED <<graph, options, stack, inputIdx, objectsWithoutScene, skinIdx, animIdx,
                   cbs, atAwait, bvCalls>>

\* processInput begins: beforeParse is broadcast
BeforeParse ==
    /\ pc = "beforeParse"
    /\ writer' = InvokeAll(writer, "beforeParse", 0, 0, FALSE, 0, FALSE).w
    /\ pc' = "processInput"
    /\ UNCHANGED <<graph, options, stack, inputIdx, objectsWithoutScene, skinIdx, animIdx,
                   cbs, atAwait, bvCalls>>

\* processInput's loop: a Scene element starts processScene
InputScene ==
    /\ pc = "processInput" /\ stack = <<>>
    /\ inputIdx <= Len(Input) /\ Input[inputIdx] = SceneId
    /\ writer' = [writer EXCEPT !.json.scenes = Append(@, [name |-> "Scene", nodes |-> <<>>])]
    /\ stack' = <<Frame("scene", Len(writer.json.scenes),
                        VisitOrder(Children(graph, SceneId)), EmptyNodeDef)>>
    /\ inputIdx' = inputIdx + 1
    /\ UNCHANGED <<graph, options, pc, objectsWithoutScene, skinIdx, animIdx, cbs, atAwait, bvCalls>>

\* processInput's loop: any other element is kept for the auxiliary scene
InputObject ==
    /\ pc = "processInput" /\ stack = <<>>
    /\ inputIdx <= Len(Input) /\ Input[inputIdx] # SceneId
    /\ objectsWithoutScene' = Append(objectsWithoutScene, Input[inputIdx])
    /\ inputIdx' = inputIdx + 1
    /\ UNCHANGED <<graph, options, writer, pc, stack, skinIdx, animIdx, cbs, atAwait, bvCalls>>

\* after the loop: processObjects builds AuxScene and processes it
ProcessObjects ==
    /\ pc = "processInput" /\ stack = <<>> /\ inputIdx > Len(Input)
    /\ IF objectsWithoutScene # <<>>
       THEN /\ writer' = [writer EXCEPT
                             !.json.scenes = Append(@, [name |-> "AuxScene", nodes |-> <<>>])]
            /\ stack' = <<Frame("scene", Len(writer.json.scenes),
                                VisitOrder(objectsWithoutScene), EmptyNodeDef)>>
            /\ pc' = "processObjects"
       ELSE /\ pc' = "deferred"
            /\ UNCHANGED <<writer, stack>>
    /\ UNCHANGED <<graph, options, inputIdx, objectsWithoutScene, skinIdx, animIdx, cbs,
                   atAwait, bvCalls>>

Traversing == pc \in {"processInput", "processObjects"} /\ stack # <<>>

ExportedAlways(child) == TRUE

\* `child.visible || this.options.onlyVisible === false`
Exported(child) == graph.visible[child] \/ writer.options.onlyVisible = FALSE

\* the next child is visible (or onlyVisible is off): processNode(child) begins
VisitChild ==
    /\ Traversing /\ Top.i <= Len(Top.kids) /\ Exported(Top.kids[Top.i])
    /\ \E r \in {ProcessNodeEnter(writer, graph, Top.kids[Top.i])} :
           /\ writer' = r.w
           /\ IF r.w.thrown # ""
              THEN pc' = "rejected" /\ stack' = <<>>
              ELSE /\ pc' = pc
                   /\ stack' = Append(stack,
                          Frame("node", Top.kids[Top.i],
                                VisitOrder(Children(graph, Top.kids[Top.i])), r.nodeDef))
    /\ UNCHANGED <<graph, options, inputIdx, objectsWithoutScene, skinIdx, animIdx, cbs,
                   atAwait, bvCalls>>

\* the next child is invisible and onlyVisible is on: it is passed over
SkipChild ==
    /\ Traversing /\ Top.i <= Len(Top.kids) /\ ~Exported(Top.kids[Top.i])
    /\ stack' = [stack EXCEPT ![Len(stack)].i = @ + 1]
    /\ UNCHANGED <<graph, options, writer, pc, inputIdx, objectsWithoutScene, skinIdx, animIdx,
                   cbs, atAwait, bvCalls>>

\* processNode returns: the node is pushed and its index goes to the caller's list
ReturnNode ==
    /\ Traversing /\ Top.kind = "node" /\ Top.i > Len(Top.kids)
    /\ writer' = ProcessNodeExit(writer, graph, Top.obj, Top.def, Top.out)
    /\ stack' = LET rest == SubSeq(stack, 1, Len(stack) - 1)
                IN  [rest EXCEPT ![Len(rest)].i = @ + 1,
                                 ![Len(rest)].out = Append(@, Len(writer.json.nodes))]
    /\ UNCHANGED <<graph, options, pc, inputIdx, objectsWithoutScene, skinIdx, animIdx, cbs,
                   atAwait, bvCalls>>

\* processScene returns: sceneDef.nodes is set when a node was exported
ReturnScene ==
    /\ Traversing /\ Top.kind = "scene" /\ Top.i > Len(Top.kids)
    /\ writer' = [writer EXCEPT !.json.scenes[Top.obj + 1].nodes = Top.out]
    /\ stack' = <<>>
    /\ pc' = IF pc = "processObjects" THEN "deferred" ELSE pc
    /\ UNCHANGED <<graph, options, inputIdx, objectsWithoutScene, skinIdx, animIdx, cbs,
                   atAwait, bvCalls>>

SkinsAfterEachScene == pc \in {"processInput", "deferred"} /\ stack = <<>>

\* the loop over writer.skins stands after every processScene and processObjects
SkinLoopReached == pc = "deferred"

\* processInput's loop over the recorded skinned objects
ProcessSkinStep ==
    /\ SkinLoopReached /\ skinIdx <= Len(writer.skins)
    /\ writer' = ProcessSkin(writer, graph, writer.skins[skinIdx])
    /\ skinIdx' = skinIdx + 1
    /\ UNCHANGED <<graph, options, pc, stack, inputIdx, objectsWithoutScene, animIdx, cbs,
                   atAwait, bvCalls>>

\* processInput's loop over options.animations; the root is input[0]
ProcessAnimationStep ==
    /\ pc = "deferred" /\ skinIdx > Len(writer.skins)
    /\ animIdx <= Len(writer.options.animations)
    /\ writer' = ProcessAnimation(writer, graph, writer.options.animations[animIdx], Input[1])
    /\ pc' = IF writer'.thrown # "" THEN "rejected" ELSE pc
    /\ animIdx' = animIdx + 1
    /\ UNCHANGED <<graph, options, stack, inputIdx, objectsWithoutScene, skinIdx, cbs, atAwait,
                   bvCalls>>

AfterParseAtOnce == TRUE

\* the loops over the skins and the animations are through
DeferredDone == skinIdx > Len(writer.skins) /\ animIdx > Len(writer.options.animations)

\* afterParse is broadcast, processInput returns, and write() reaches
\* `await Promise.all(this.pending)`
AfterParse ==
    /\ pc = "deferred" /\ DeferredDone
    /\ pc' = "await"
    /\ writer' = InvokeAll(writer, "afterParse", 0, 0, FALSE, 0, FALSE).w
    /\ atAwait' = writer'
    /\ UNCHANGED <<graph, options, stack, inputIdx, objectsWithoutScene, skinIdx,
                   animIdx, cbs, bvCalls>>

\* the encode callbacks run when the synchronous part is over
EncodesMayRun == pc \in {"await", "rejected", "errored"}

\* processBufferViewImage's callback for pending encode k
EncodeViewed(w, k) ==
    LET Store(r) == [r.w EXCEPT !.pending[k].state = "viewed",
                                !.pending[k].bufferViewIndex = r.ret]
    IN  Bind(ProcessBufferViewImage(w, [size |-> w.pending[k].size,
                                        image |-> w.pending[k].image]), Store)

LastImageDef(w, k) == Len(w.json.images) - 1

\* the imageDef the callbacks of encode k closed over
ReservedImageDef(w, k) == w.pending[k].imageDef

\* the last callback of encode k: imageDef.bufferView = bufferViewIndex
EncodeAssigned(w, k) ==
    [w EXCEPT !.json.images[ReservedImageDef(w, k) + 1].bufferView = w.pending[k].bufferViewIndex,
              !.pending[k].state = "fulfilled"]

\* an encode's blob was read: its bufferView and chunk are appended
EncodeBufferView ==
    \E k \in 1..Len(writer.pending) :
        /\ EncodesMayRun /\ writer.pending[k].state = "blob"
        /\ writer' = EncodeViewed(writer, k)
        /\ UNCHANGED <<graph, options, ctl, cbs, atAwait, bvCalls>>

\* an encode's promise is fulfilled once its image definition has the index
EncodeAssign ==
    \E k \in 1..Len(writer.pending) :
        /\ EncodesMayRun /\ writer.pending[k].state = "viewed"
        /\ writer' = EncodeAssigned(writer, k)
        /\ UNCHANGED <<graph, options, ctl, cbs, atAwait, bvCalls>>

AllSettledNotChecked == TRUE

\* Promise.all(pending) is fulfilled: every pending encode is
AllPendingFulfilled == \A k \in 1..Len(writer.pending) : writer.pending[k].state = "fulfilled"

ChunkLengths(buffers) == [k \in 1..Len(buffers) |-> buffers[k].byteLength]

\* new Blob(buffers).size
BlobSize(buffers) == SumSeq(ChunkLengths(buffers))

\* Object.keys of an object used as a set of names
ObjectKeys(names) == names

\* write() after the await: the extension lists (left out when empty) and the
\* byteLength of the single buffer
Finalized(w) ==
    LET declared == [w EXCEPT !.json.extensionsUsed = ObjectKeys(w.extensionsUsed),
                              !.json.extensionsRequired = ObjectKeys(w.extensionsRequired)]
    IN  IF w.json.buffers # <<>>
        THEN [declared EXCEPT !.json.buffers[1].byteLength = BlobSize(w.buffers)]
        ELSE declared

\* write() after the await: merge the buffers, set the byteLength, and either
\* hand the document over at once or start reading the blob
Finalize ==
    /\ pc = "await" /\ AllPendingFulfilled
    /\ writer' = Finalized(writer)
    /\ IF writer.options.binary \/ writer.json.buffers # <<>>
       THEN pc' = "emit" /\ UNCHANGED cbs
       ELSE /\ pc' = "done"
            /\ onDoneCalls' = onDoneCalls + 1
            /\ output' = [binary |-> FALSE, json |-> writer'.json, blob |-> <<>>]
            /\ UNCHANGED onErrorCalls
    /\ UNCHANGED <<graph, options, stack, inputIdx, objectsWithoutScene, skinIdx, animIdx,
                   atAwait, bvCalls>>

\* Buffer.from(buffer).toString('base64'): the text that encodes the blob's
\* bytes, four characters for every three bytes begun
ToBase64(chunks) == [base64 |-> chunks, length |-> 4 * ((BlobSize(chunks) + 2) \div 3)]

\* a string is the sequence of its parts; a part given in the source as text
Literal(text) == [literal |-> text]

\* the blob was read: onDone gets the GLB, or the document with the buffer's uri
Emit ==
    /\ pc = "emit"
    /\ writer' = IF writer.options.binary THEN writer
                 ELSE [writer EXCEPT !.json.buffers[1].uri = <<ToBase64(writer.buffers)>>]
    /\ output' = [ binary |-> writer.options.binary, json |-> writer'.json,
                   blob |-> IF writer.options.binary THEN writer.buffers ELSE <<>> ]
    /\ onDoneCalls' = onDoneCalls + 1
    /\ pc' = "done"
    /\ UNCHANGED <<graph, options, stack, inputIdx, objectsWithoutScene, skinIdx, animIdx,
                   onErrorCalls, atAwait, bvCalls>>

RejectionSwallowed == FALSE

\* Promise.all(pending) is rejected as soon as one encode is
AnyPendingRejected == \E k \in 1..Len(writer.pending) : writer.pending[k].state = "rejected"

\* the await throws the encode's error: write() rejects
AwaitReject ==
    /\ pc = "await" /\ AnyPendingRejected
    /\ pc' = "rejected"
    /\ UNCHANGED <<graph, options, writer, stack, inputIdx, objectsWithoutScene, skinIdx,
                   animIdx, cbs, atAwait, bvCalls>>

\* parse(): write(...).catch(onError)
OnError ==
    /\ pc = "rejected"
    /\ pc' = "errored"
    /\ onErrorCalls' = onErrorCalls + 1
    /\ UNCHANGED <<graph, options, writer, stack, inputIdx, objectsWithoutScene, skinIdx,
                   animIdx, onDoneCalls, output, atAwait, bvCalls>>

(***************************************************************************)
(* The calls of parse() the model explores: families of inputs, each       *)
(* varying one aspect of the scene - its shape, its skins, its animation   *)
(* clip, its meshes, its plug-ins, its attributes, its textures and its    *)
(* material groups.                                                        *)
(***************************************************************************)
Parents == {p \in [Obj -> 0..(NObj - 1)] : \A o \in Obj : p[o] < o}
Flat == [o \in Obj |-> 0]
Chain == [o \in Obj |-> o - 1]
AllTrue == [o \in Obj |-> TRUE]
NoBones == [o \in Obj |-> <<>>]
PlainMesh == [geometry |-> 2, material |-> 1]
PlainMeshes == [o \in Obj |-> PlainMesh]

\* a clip of one track on `nodeName`, and a second one on object 1's scale
Track(nodeName, propertyName) ==
    [ nodeName |-> nodeName, propertyName |-> propertyName, keys |-> 2, valueSize |-> 3,
      targetIndex |-> Absent, interpolation |-> "LINEAR" ]

\* a track of morph target influences with `keys` keyframes: of all targets
\* (targetIndex Absent), of the target of an index, or of a target the node
\* does not know (Undefined); the meshes here have one morph target
MorphTrack(nodeName, targetIndex, interpolation, keys) ==
    [ nodeName |-> nodeName, propertyName |-> "morphTargetInfluences", keys |-> keys,
      valueSize |-> 1, targetIndex |-> targetIndex, interpolation |-> interpolation ]

\* an AnimationClip of the caller
Clip(tracks) == [name |-> "clip", uuid |-> 1, tracks |-> tracks]

Options(binary, onlyVisible, animations) ==
    [ binary |-> binary, trs |-> FALSE, onlyVisible |-> onlyVisible, animations |-> animations,
      includeCustomExtensions |-> FALSE ]

\* every tree over the objects, any visibility, top-level objects in the Scene
\* or in the input array; the last object is a skinned mesh bound to object 1;
\* the caller registered one plug-in of its own
ShapeInputs ==
    { [ plugins |-> Register(ExporterConstructor, NBuiltin + 1),
        graph |-> [ parent |-> c[1], visible |-> v, inScene |-> c[2],
                    type |-> [o \in Obj |-> IF o = NObj THEN "SkinnedMesh" ELSE "Object3D"],
                    mesh |-> PlainMeshes,
                    bones |-> [o \in Obj |-> IF o = NObj /\ o # 1 THEN <<1>> ELSE <<>>] ],
        options |-> Options(FALSE, ov, <<Clip(<<Track(1, "position")>>)>>) ] :
      c \in {d \in Parents \X [Obj -> BOOLEAN] : \A o \in Obj : d[1][o] # 0 => d[2][o]},
      v \in [Obj -> BOOLEAN], ov \in BOOLEAN }

BoneLists == {<<>>} \cup {<<b>> : b \in Obj} \cup {<<b, b + 1>> : b \in 1..(NObj - 1)}

\* one skinned mesh with any short bone list, in a flat or a chained scene
SkinInputs ==
    { [ plugins |-> ExporterConstructor,
        graph |-> [ parent |-> p, visible |-> v, inScene |-> AllTrue,
                    type |-> [o \in Obj |-> IF o = sk THEN "SkinnedMesh" ELSE "Object3D"],
                    mesh |-> PlainMeshes,
                    bones |-> [o \in Obj |-> IF o = sk THEN bl ELSE <<>>] ],
        options |-> Options(FALSE, TRUE, <<>>) ] :
      p \in {Flat, Chain}, v \in [Obj -> BOOLEAN], sk \in Obj, bl \in BoneLists }

\* one clip of two tracks; the first names any object (0: the root) and a
\* property with or without a glTF path; object 1 is a camera
AnimationInputs ==
    { [ plugins |-> ExporterConstructor,
        graph |-> [ parent |-> p, visible |-> v, inScene |-> AllTrue,
                    type |-> [o \in Obj |-> IF o = 1 THEN "Camera" ELSE "Object3D"],
                    mesh |-> PlainMeshes,
                    bones |-> NoBones ],
        options |-> Options(b, TRUE,
                        <<Clip(<<Track(n, prop), Track(1, "scale")>>)>>) ] :
      p \in {Flat, Chain}, v \in [Obj -> BOOLEAN], b \in BOOLEAN,
      n \in 0..NObj, prop \in {"position", "visible"} }

\* geometry and material of the meshes of a scene
MeshChoices ==
    { [geometry |-> 2, material |-> 1],     \* no texture
      [geometry |-> 1, material |-> 2],     \* indexed, PNG texture of image 1
      [geometry |-> 2, material |-> 3],     \* JPEG texture of image 2
      [geometry |-> 3, material |-> 4],     \* no vertex, ShaderMaterial
      [geometry |-> 4, material |-> 1],     \* unsupported attribute storage
      [geometry |-> 2, material |-> 5],     \* texture of an invalid image
      [geometry |-> 2, material |-> 6],     \* GIF texture of image 2
      [geometry |-> 2, material |-> 7] }    \* WebP texture of image 1

\* a flat scene of meshes, exported as GLB or as JSON
MeshInputs ==
    { [ plugins |-> ExporterConstructor,
        graph |-> [ parent |-> Flat, visible |-> AllTrue, inScene |-> AllTrue,
                    type |-> [o \in Obj |-> "Mesh"],
                    mesh |-> m,
                    bones |-> NoBones ],
        options |-> Options(b, TRUE, <<>>) ] :
      m \in [Obj -> MeshChoices], b \in BOOLEAN }

\* the factory lists two register / unregister calls make of the constructor's
AfterOneCall(lists) ==
    lists \cup {Register(l, f) : l \in lists, f \in Factories}
          \cup {Unregister(l, f) : l \in lists, f \in Factories}

PluginLists == AfterOneCall(AfterOneCall({ExporterConstructor}))

PluginMeshChoices ==
    { [geometry |-> 2, material |-> 1],     \* no texture
      [geometry |-> 2, material |-> 8],     \* MeshBasicMaterial, custom extensions
      [geometry |-> 1, material |-> 8] }

\* a mesh and an instanced mesh, side by side or one below the other, exported
\* with any list of plug-ins
PluginInputs ==
    { [ plugins |-> pl,
        graph |-> [ parent |-> p, visible |-> AllTrue, inScene |-> AllTrue,
                    type |-> [o \in Obj |-> IF o = 1 THEN "Mesh"
                                            ELSE IF o = 2 THEN "InstancedMesh"
                                            ELSE "Object3D"],
                    mesh |-> [o \in Obj |-> IF o = 1 THEN m1 ELSE m2],
                    bones |-> NoBones ],
        options |-> [Options(FALSE, TRUE, <<>>) EXCEPT !.includeCustomExtensions = ice] ] :
      pl \in PluginLists, p \in {Flat, Chain}, m1 \in PluginMeshChoices,
      m2 \in PluginMeshChoices, ice \in BOOLEAN }

AttributeMeshChoices ==
    { [geometry |-> 2, material |-> 1],     \* position alone
      [geometry |-> 5, material |-> 1],     \* quantized position
      [geometry |-> 6, material |-> 1],     \* a normal that is not normalized
      [geometry |-> 6, material |-> 8],     \* the same geometry, another material
      [geometry |-> 7, material |-> 1],     \* skinIndex held as floats, a custom attribute
      [geometry |-> 7, material |-> 8],
      [geometry |-> 8, material |-> 1],     \* one morph target
      [geometry |-> 8, material |-> 8],
      [geometry |-> 9, material |-> 1],     \* a morph target of a quantized position
      [geometry |-> 10, material |-> 1] }   \* the morph target is geometry 8's position

\* two meshes that may share a geometry or single attributes
AttributeInputs ==
    { [ plugins |-> ExporterConstructor,
        graph |-> [ parent |-> Flat, visible |-> AllTrue, inScene |-> AllTrue,
                    type |-> [o \in Obj |-> IF o <= 2 THEN "Mesh" ELSE "Object3D"],
                    mesh |-> [o \in Obj |-> IF o = 1 THEN m1 ELSE m2],
                    bones |-> NoBones ],
        options |-> Options(FALSE, TRUE, <<>>) ] :
      m1 \in AttributeMeshChoices, m2 \in AttributeMeshChoices }

TextureMeshChoices ==
    { [geometry |-> 2, material |-> 1],     \* no texture
      [geometry |-> 2, material |-> 2],     \* texture 1 as map
      [geometry |-> 1, material |-> 2],     \* the same material on another geometry
      [geometry |-> 2, material |-> 9],     \* texture 1 as map and as emissiveMap
      [geometry |-> 2, material |-> 10],    \* texture 2 as map, texture 1 as emissiveMap
      [geometry |-> 2, material |-> 11],    \* the compressed texture as map
      [geometry |-> 1, material |-> 11],
      [geometry |-> 2, material |-> 12],    \* the compressed texture in two slots
      [geometry |-> 2, material |-> 13],    \* the compressed texture as emissiveMap
      [geometry |-> 2, material |-> 14] }   \* a ShaderMaterial with a texture

\* two meshes whose materials may share textures, exported as GLB or as JSON
TextureInputs ==
    { [ plugins |-> ExporterConstructor,
        graph |-> [ parent |-> Flat, visible |-> AllTrue, inScene |-> AllTrue,
                    type |-> [o \in Obj |-> IF o <= 2 THEN "Mesh" ELSE "Object3D"],
                    mesh |-> [o \in Obj |-> IF o = 1 THEN m1 ELSE m2],
                    bones |-> NoBones ],
        options |-> Options(b, TRUE, <<>>) ] :
      m1 \in TextureMeshChoices, m2 \in TextureMeshChoices, b \in BOOLEAN }

GroupMeshChoices ==
    { [geometry |-> 2, material |-> 1],                 \* one material
      [geometry |-> 2, material |-> FirstArray + 4],    \* the same material in an array
      [geometry |-> 2, material |-> FirstArray + 1],    \* two materials, no group
      [geometry |-> 12, material |-> FirstArray + 1],   \* indexed, two groups
      [geometry |-> 12, material |-> FirstArray + 2],   \* the materials the other way round
      [geometry |-> 12, material |-> FirstArray + 5],   \* the second one a ShaderMaterial
      [geometry |-> 13, material |-> FirstArray + 1],   \* not indexed, an empty group
      [geometry |-> 13, material |-> FirstArray + 3],   \* the second texture is invalid
      [geometry |-> 14, material |-> 1],                \* unsupported storage after the normal
      [geometry |-> 6, material |-> 1],                 \* a normal that is not normalized
      [geometry |-> 3, material |-> 1],                 \* no vertex
      [geometry |-> 11, material |-> 1],                \* a morph target without data
      [geometry |-> 15, material |-> 1] }               \* an index without data

\* two meshes with one material or an array of materials
GroupInputs ==
    { [ plugins |-> ExporterConstructor,
        graph |-> [ parent |-> Flat, visible |-> AllTrue, inScene |-> AllTrue,
                    type |-> [o \in Obj |-> IF o <= 2 THEN "Mesh" ELSE "Object3D"],
                    mesh |-> [o \in Obj |-> IF o = 1 THEN m1 ELSE m2],
                    bones |-> NoBones ],
        options |-> Options(FALSE, TRUE, <<>>) ] :
      m1 \in GroupMeshChoices, m2 \in GroupMeshChoices }

\* the tracks of a clip: of a mesh with one morph target (object 1), of a plain
\* object that may be hidden (object 2) and of a name no object has
ClipTracks ==
    { Track(n, prop) : n \in {1, 2}, prop \in {"scale", "position", "visible"} }
    \cup { [Track(1, "quaternion") EXCEPT !.valueSize = 4],
           [Track(1, "position") EXCEPT !.valueSize = 9, !.interpolation = "CUBICSPLINE"],
           Track(NObj + 1, "position"),
           MorphTrack(1, Absent, "LINEAR", 2),
           MorphTrack(1, 0, "LINEAR", 2),
           MorphTrack(1, 0, "DISCRETE", 3),
           MorphTrack(1, Undefined, "LINEAR", 2),
           MorphTrack(1, 0, "CUBICSPLINE", 2),
           MorphTrack(2, Absent, "LINEAR", 2),
           MorphTrack(NObj + 1, Absent, "LINEAR", 2),
           MorphTrack(NObj + 1, 0, "LINEAR", 2) }

\* one clip of two tracks, or two clips of one track each
ClipInputs ==
    { [ plugins |-> ExporterConstructor,
        graph |-> [ parent |-> Flat, visible |-> [AllTrue EXCEPT ![2] = v],
                    inScene |-> AllTrue,
                    type |-> [o \in Obj |-> IF o = 1 THEN "Mesh" ELSE "Object3D"],
                    mesh |-> [PlainMeshes EXCEPT ![1] = [geometry |-> 8, material |-> 1]],
                    bones |-> NoBones ],
        options |-> Options(FALSE, TRUE, a) ] :
      v \in BOOLEAN,
      a \in { <<Clip(<<t1, t2>>)>> : t1 \in ClipTracks, t2 \in ClipTracks }
            \cup { <<Clip(<<t1>>), [Clip(<<t2>>) EXCEPT !.uuid = 2]>> :
                       t1 \in ClipTracks, t2 \in ClipTracks } }

Inputs ==
    ShapeInputs \cup SkinInputs \cup AnimationInputs \cup MeshInputs \cup PluginInputs
        \cup AttributeInputs \cup TextureInputs \cup GroupInputs \cup ClipInputs

\* no parse() under way: the values the writer's variables keep in the
\* specifications that do not export
IdleRegistry ==
    /\ pluginCallbacks = <<>>
    /\ lastCall = [op |-> "new", f |-> 0, before |-> <<>>]

IdleGLB == glbIn = [json |-> <<>>, bin |-> <<>>] /\ glbOut = <<>>

IdleParse ==
    /\ pc = "start" /\ stack = <<>> /\ inputIdx = 1 /\ objectsWithoutScene = <<>>
    /\ skinIdx = 1 /\ animIdx = 1
    /\ onDoneCalls = 0 /\ onErrorCalls = 0
    /\ output = [binary |-> FALSE, json |-> EmptyJson, blob |-> <<>>]
    /\ atAwait = NewWriter /\ bvCalls = <<>>
    /\ other = <<>> /\ current = 1 /\ calledAt = ""

IdleAccessor ==
    /\ accIn = [attribute |-> 0, start |-> Undefined, count |-> Undefined, geometry |-> FALSE]
    /\ accOut = <<>>

IdleMerge ==
    /\ clipIn = <<>>
    /\ merging = [ i |-> 1, j |-> 0, tracks |-> <<>>, mergedTracks |-> <<>>, thrown |-> "",
                   returned |-> FALSE ]

IdleKeyframe ==
    /\ keyIn = [track |-> [times |-> <<>>, values |-> <<>>], time |-> 0]
    /\ keyOut = <<>>

IdleControl == IdleParse /\ IdleAccessor /\ IdleMerge /\ IdleKeyframe

IdleWriter ==
    /\ graph = [ parent |-> Flat, visible |-> AllTrue, inScene |-> AllTrue,
                 type |-> [o \in Obj |-> "Object3D"], mesh |-> PlainMeshes, bones |-> NoBones ]
    /\ options = DefaultOptions
    /\ writer = NewWriter
    /\ IdleControl

\* parse(input, onDone, onError, options) is called on a new exporter
Init ==
    /\ \E in \in Inputs :
           graph = in.graph /\ options = in.options /\ pluginCallbacks = in.plugins
    /\ lastCall = [op |-> "new", f |-> 0, before |-> <<>>]
    /\ writer = NewWriter
    /\ IdleControl
    /\ IdleGLB

Next ==
    \/ (Write /\ UNCHANGED <<rvars, gvars, evars, avars, mvars>>)
    \/ (BeforeParse /\ UNCHANGED <<rvars, gvars, evars, avars, mvars>>)
    \/ (InputScene /\ UNCHANGED <<rvars, gvars, evars, avars, mvars>>)
    \/ (InputObject /\ UNCHANGED <<rvars, gvars, evars, avars, mvars>>)
    \/ (ProcessObjects /\ UNCHANGED <<rvars, gvars, evars, avars, mvars>>)
    \/ (VisitChild /\ UNCHANGED <<rvars, gvars, evars, avars, mvars>>)
    \/ (SkipChild /\ UNCHANGED <<rvars, gvars, evars, avars, mvars>>)
    \/ (ReturnNode /\ UNCHANGED <<rvars, gvars, evars, avars, mvars>>)
    \/ (ReturnScene /\ UNCHANGED <<rvars, gvars, evars, avars, mvars>>)
    \/ (ProcessSkinStep /\ UNCHANGED <<rvars, gvars, evars, avars, mvars>>)
    \/ (ProcessAnimationStep /\ UNCHANGED <<rvars, gvars, evars, avars, mvars>>)
    \/ (AfterParse /\ UNCHANGED <<rvars, gvars, evars, avars, mvars>>)
    \/ (EncodeBufferView /\ UNCHANGED <<rvars, gvars, evars, avars, mvars>>)
    \/ (EncodeAssign /\ UNCHANGED <<rvars, gvars, evars, avars, mvars>>)
    \/ (Finalize /\ UNCHANGED <<rvars, gvars, evars, avars, mvars>>)
    \/ (Emit /\ UNCHANGED <<rvars, gvars, evars, avars, mvars>>)
    \/ (AwaitReject /\ UNCHANGED <<rvars, gvars, evars, avars, mvars>>)
    \/ (OnError /\ UNCHANGED <<rvars, gvars, evars, avars, mvars>>)

Spec == Init /\ [][Next]_vars

\* the exports whose end is followed: those with images to encode, with
\* attributes that cannot be stored, with a ShaderMaterial, and flat scenes
\* with a skin and an animation
FairInputs ==
    MeshInputs \cup AttributeInputs \cup TextureInputs
        \cup {in \in ShapeInputs : in.graph.parent = Flat}

FairInit ==
    /\ \E in \in FairInputs :
           graph = in.graph /\ options = in.options /\ pluginCallbacks = in.plugins
    /\ lastCall = [op |-> "new", f |-> 0, before |-> <<>>]
    /\ writer = NewWriter
    /\ IdleControl
    /\ IdleGLB

\* The event loop runs every job it holds: a step that is enabled is taken.
FairSpec == FairInit /\ [][Next]_vars /\ WF_vars(Next)

(***************************************************************************)
(* SpecExporter: parse() is called a second time with the same input,      *)
(* after the first write ended or while it waits for its image encodes.    *)
(* `writer` and the variables around it are those of the write whose job   *)
(* the event loop runs; the state of the other write is kept in `other`.   *)
(* JavaScript runs a job to its end, so another call of the exporter, or a *)
(* job of the other write, comes only when the running write waits or has  *)
(* ended.                                                                  *)
(***************************************************************************)
BetweenJobs(at) == at \in {"await", "emit", "rejected", "done", "errored"}

\* the state of the write under way, as it is set aside
Parked ==
    [ writer |-> writer, pc |-> pc, inputIdx |-> inputIdx,
      objectsWithoutScene |-> objectsWithoutScene, skinIdx |-> skinIdx, animIdx |-> animIdx,
      onDoneCalls |-> onDoneCalls, onErrorCalls |-> onErrorCalls, output |-> output,
      atAwait |-> atAwait ]

SharedCache(old) == [NewWriter EXCEPT !.cache = old.cache]

\* parse(): `const writer = new GLTFWriter()`
FreshWriter(old) == NewWriter

\* parse() is called again with the same input and options
ParseAgain ==
    /\ current = 1 /\ other = <<>>
    /\ pc \in {"await", "done", "errored"}
    /\ other' = <<Parked>>
    /\ current' = 2
    /\ calledAt' = pc
    /\ writer' = FreshWriter(writer)
    /\ pc' = "start" /\ stack' = <<>> /\ inputIdx' = 1 /\ objectsWithoutScene' = <<>>
    /\ skinIdx' = 1 /\ animIdx' = 1
    /\ onDoneCalls' = 0 /\ onErrorCalls' = 0
    /\ output' = [binary |-> FALSE, json |-> EmptyJson, blob |-> <<>>]
    /\ atAwait' = NewWriter
    /\ UNCHANGED <<graph, options, bvCalls>>

\* the event loop turns to a job of the other write
SwitchWrite ==
    /\ other # <<>> /\ BetweenJobs(pc) /\ BetweenJobs(other[1].pc)
    /\ other' = <<Parked>>
    /\ current' = 3 - current
    /\ UNCHANGED calledAt
    /\ writer' = other[1].writer
    /\ pc' = other[1].pc /\ stack' = <<>> /\ inputIdx' = other[1].inputIdx
    /\ objectsWithoutScene' = other[1].objectsWithoutScene
    /\ skinIdx' = other[1].skinIdx /\ animIdx' = other[1].animIdx
    /\ onDoneCalls' = other[1].onDoneCalls /\ onErrorCalls' = other[1].onErrorCalls
    /\ output' = other[1].output
    /\ atAwait' = other[1].atAwait
    /\ UNCHANGED <<graph, options, bvCalls>>

\* register or unregister is called while a write is in flight (once here)
RegisterInFlight ==
    /\ BetweenJobs(pc) /\ lastCall.op = "new"
    /\ (CallRegister \/ CallUnregister)

\* binary exports of meshes, so that encodes are pending, and exports with
\* plug-ins of the caller
ExporterInputs ==
    {in \in MeshInputs : in.options.binary /\ \A o \in Obj : o > 2 => in.graph.mesh[o] = PlainMesh}
    \cup {in \in PluginInputs : in.options.includeCustomExtensions /\ in.graph.parent = Flat}

InitE ==
    /\ \E in \in ExporterInputs :
           graph = in.graph /\ options = in.options /\ pluginCallbacks = in.plugins
    /\ lastCall = [op |-> "new", f |-> 0, before |-> <<>>]
    /\ writer = NewWriter
    /\ IdleControl
    /\ IdleGLB

NextE ==
    \/ (Write /\ UNCHANGED <<rvars, gvars, evars, avars, mvars>>)
    \/ (BeforeParse /\ UNCHANGED <<rvars, gvars, evars, avars, mvars>>)
    \/ (InputScene /\ UNCHANGED <<rvars, gvars, evars, avars, mvars>>)
    \/ (VisitChild /\ UNCHANGED <<rvars, gvars, evars, avars, mvars>>)
    \/ (ReturnNode /\ UNCHANGED <<rvars, gvars, evars, avars, mvars>>)
    \/ (ReturnScene /\ UNCHANGED <<rvars, gvars, evars, avars, mvars>>)
    \/ (ProcessObjects /\ UNCHANGED <<rvars, gvars, evars, avars, mvars>>)
    \/ (AfterParse /\ UNCHANGED <<rvars, gvars, evars, avars, mvars>>)
    \/ (EncodeBufferView /\ UNCHANGED <<rvars, gvars, evars, avars, mvars>>)
    \/ (EncodeAssign /\ UNCHANGED <<rvars, gvars, evars, avars, mvars>>)
    \/ (Finalize /\ UNCHANGED <<rvars, gvars, evars, avars, mvars>>)
    \/ (Emit /\ UNCHANGED <<rvars, gvars, evars, avars, mvars>>)
    \/ (AwaitReject /\ UNCHANGED <<rvars, gvars, evars, avars, mvars>>)
    \/ (OnError /\ UNCHANGED <<rvars, gvars, evars, avars, mvars>>)
    \/ (ParseAgain /\ UNCHANGED <<rvars, gvars, avars, mvars>>)
    \/ (SwitchWrite /\ UNCHANGED <<rvars, gvars, avars, mvars>>)
    \/ (RegisterInFlight /\ UNCHANGED <<gvars, wvars, evars, avars, mvars>>)

SpecExporter == InitE /\ [][NextE]_vars

(***************************************************************************)
(* SpecRegistry: any sequence of register and unregister calls.            *)
(***************************************************************************)
InitR == InitRegistry /\ IdleGLB /\ IdleWriter

NextR ==
    \/ (CallRegister /\ UNCHANGED <<gvars, wvars, evars, avars, mvars>>)
    \/ (CallUnregister /\ UNCHANGED <<gvars, wvars, evars, avars, mvars>>)

SpecRegistry == InitR /\ [][NextR]_vars

(***************************************************************************)
(* SpecGLB: the GLB of any JSON text and any accumulated chunks.           *)
(***************************************************************************)
InitG == InitGLB /\ IdleRegistry /\ IdleWriter

NextG == EmitGLB /\ UNCHANGED <<rvars, wvars, evars, avars, mvars>>

SpecGLB == InitG /\ [][NextG]_vars

(***************************************************************************)
(* SpecBufferView: any sequence of processBufferView calls and image       *)
(* bufferView completions on one writer.                                   *)
(***************************************************************************)
MaxCalls == 2     \* calls of processBufferView / processBufferViewImage

ItemSizes == {1, 3}
ComponentTypes == {UNSIGNED_BYTE, UNSIGNED_SHORT, FLOAT}
Counts == {1, 3}
Targets == {ARRAY_BUFFER, ELEMENT_ARRAY_BUFFER, Undefined}
BlobSizes == {3, 8}

CallProcessBufferView ==
    \E itemSize \in ItemSizes, componentType \in ComponentTypes, count \in Counts,
       target \in Targets :
        /\ Len(bvCalls) < MaxCalls
        /\ writer' = ProcessBufferView(writer,
                         [ id |-> Len(bvCalls), ctor |-> "", itemSize |-> itemSize,
                           count |-> count, array |-> SampleArray(0, itemSize * count),
                           normalized |-> FALSE ],
                         componentType, 0, count, target).w
        /\ bvCalls' = Append(bvCalls, [ image |-> FALSE, itemSize |-> itemSize,
                                        componentType |-> componentType, count |-> count,
                                        target |-> target ])
        /\ UNCHANGED <<graph, options, ctl, cbs, atAwait>>

CallProcessBufferViewImage ==
    \E size \in BlobSizes :
        /\ Len(bvCalls) < MaxCalls
        /\ writer' = ProcessBufferViewImage(writer, [size |-> size, image |-> Len(bvCalls)]).w
        /\ bvCalls' = Append(bvCalls, [ image |-> TRUE, itemSize |-> 0, componentType |-> 0,
                                        count |-> size, target |-> Undefined ])
        /\ UNCHANGED <<graph, options, ctl, cbs, atAwait>>

InitB == IdleWriter /\ IdleRegistry /\ IdleGLB

NextB ==
    \/ (CallProcessBufferView /\ UNCHANGED <<rvars, gvars, evars, avars, mvars>>)
    \/ (CallProcessBufferViewImage /\ UNCHANGED <<rvars, gvars, evars, avars, mvars>>)

SpecBufferView == InitB /\ [][NextB]_vars

(***************************************************************************)
(* SpecAccessor: one processAccessor call on a new writer, for attributes  *)
(* whose arrays hold small integers and for every range inside the array.  *)
(***************************************************************************)
MaxCount == 3     \* elements of an attribute of itemSize 1 (one less for itemSize 2)

StoredValues == {-1, 0, 2}

\* the arrays of n stored numbers
ArraysOf(n) == [1..n -> StoredValues]

\* attributes of floats, of bytes and of normalized bytes, and one matrix
\* attribute (itemSize above 4)
AccessorAttributes ==
    { [ id |-> 1, ctor |-> t[1], itemSize |-> sz[1], count |-> sz[2], array |-> arr,
        normalized |-> t[2] ] :
      t \in {<<"Float32Array", FALSE>>, <<"Int8Array", FALSE>>, <<"Int8Array", TRUE>>},
      sz \in {<<1, c>> : c \in 0..MaxCount} \cup {<<2, c>> : c \in 1..(MaxCount - 1)},
      arr \in UNION {ArraysOf(n) : n \in 0..(2 * MaxCount)} }

AccessorCalls ==
    { [attribute |-> at, start |-> st, count |-> ct, geometry |-> g] :
      at \in { x \in AccessorAttributes : Len(x.array) = x.itemSize * x.count },
      st \in {Undefined} \cup (0..MaxCount), ct \in {Undefined} \cup (0..MaxCount),
      g \in BOOLEAN }

\* the range of a call lies inside the array
InsideArray(call) ==
    LET start == IF call.start = Undefined THEN 0 ELSE call.start
        count == IF call.count = Undefined THEN call.attribute.count ELSE call.count
    IN  start + count <= call.attribute.count

MatrixCalls ==
    { [ attribute |-> [ id |-> 1, ctor |-> "Float32Array", itemSize |-> 9, count |-> 2,
                        array |-> SampleArray(seed, 18), normalized |-> FALSE ],
        start |-> st, count |-> 1, geometry |-> FALSE ] : seed \in 0..4, st \in 0..1 }

CallProcessAccessor ==
    /\ accOut = <<>>
    /\ \E r \in {ProcessAccessor(writer, accIn.attribute,
                       IF accIn.geometry THEN [given |-> TRUE, index |-> Null] ELSE NoGeometry,
                       accIn.start, accIn.count)} :
           writer' = r.w /\ accOut' = <<r.ret>>
    /\ UNCHANGED <<graph, options, ctl, cbs, atAwait, bvCalls, accIn>>

InitA ==
    /\ IdleRegistry /\ IdleGLB /\ IdleParse /\ IdleMerge /\ IdleKeyframe
    /\ graph = [ parent |-> Flat, visible |-> AllTrue, inScene |-> AllTrue,
                 type |-> [o \in Obj |-> "Object3D"], mesh |-> PlainMeshes, bones |-> NoBones ]
    /\ options = DefaultOptions
    /\ writer = NewWriter
    /\ accIn \in {c \in AccessorCalls : InsideArray(c)} \cup MatrixCalls
    /\ accOut = <<>>

NextA == CallProcessAccessor /\ UNCHANGED <<rvars, gvars, evars, mvars>>

SpecAccessor == InitA /\ [][NextA]_vars

(***************************************************************************)
(* SpecMerge: GLTFExporterUtils.mergeMorphTargetTracks(clip, root).        *)
(*                                                                         *)
(* Keyframe times are integers in units of half a millisecond. A track is  *)
(* its times and, per keyframe, a row of values; a value is named by where *)
(* it comes from, since only its place matters here. The outer loop is cut *)
(* into one step per source track, and one per keyframe that is inserted.  *)
(* A track of the result remembers in `source` the place of the source     *)
(* track it was pushed for.                                                *)
(***************************************************************************)
tolerance == 2    \* insertKeyframe's tolerance of 1 ms, in units of 0.5 ms
MaxTime == 6      \* the latest keyframe time
MaxKeys == 3      \* keyframes of a source track

\* sourceTrackNode.morphTargetInfluences.length
TargetCount == 2

ZeroValue == [kind |-> "zero", track |-> 0, at |-> 0]

\* sourceTrack.values[j]: the value of source track i at its keyframe at `time`
KeyframeValue(i, time) == [kind |-> "keyframe", track |-> i, at |-> time]

\* sourceInterpolant.evaluate(time)
EvaluatedValue(i, time) == [kind |-> "evaluated", track |-> i, at |-> time]

\* interpolant.evaluate(time) of the merged track: one value per target, and
\* zero where every keyframe of the track has zero
InterpolatedRow(track, time) ==
    [c \in 1..TargetCount |->
        IF \A k \in 1..Len(track.values) : track.values[k][c] = ZeroValue THEN ZeroValue
        ELSE [kind |-> "interpolated", track |-> c, at |-> time]]

MathAbs(x) == IF x < 0 THEN -x ELSE x

InsertAt(seq, k, x) == SubSeq(seq, 1, k) \o <<x>> \o SubSeq(seq, k + 1, Len(seq))

\* insertKeyframe's last branch: its loop from index i (0-based) on
RECURSIVE InsertInside(_, _, _)
InsertInside(track, time, i) ==
    LET n == Len(track.times)
    IN  IF i >= n
        THEN [ track |-> [track EXCEPT !.times = Repeat(0, n + 1),
                                       !.values = Repeat(Repeat(ZeroValue, TargetCount), n + 1)],
               index |-> Undefined ]
        ELSE IF MathAbs(track.times[i + 1] - time) < tolerance
        THEN [track |-> track, index |-> i]
        ELSE IF i + 2 <= n /\ track.times[i + 1] < time /\ track.times[i + 2] > time
        THEN [ track |-> [track EXCEPT !.times = InsertAt(@, i + 1, time),
                                       !.values = InsertAt(@, i + 1, InterpolatedRow(track, time))],
               index |-> i + 1 ]
        ELSE InsertInside(track, time, i + 1)

\* insertKeyframe(track, time): the track afterwards and the index returned
insertKeyframe(track, time) ==
    LET n == Len(track.times)
    IN  IF n = 0
        THEN [ track |-> [track EXCEPT !.times = <<time>>,
                                       !.values = <<Repeat(ZeroValue, TargetCount)>>],
               index |-> 0 ]
        ELSE IF time < track.times[1]
        THEN IF MathAbs(track.times[1] - time) < tolerance
             THEN [track |-> track, index |-> 0]
             ELSE [ track |-> [track EXCEPT !.times = <<time>> \o @,
                                            !.values = <<InterpolatedRow(track, time)>> \o @],
                    index |-> 0 ]
        ELSE IF time > track.times[n]
        THEN IF MathAbs(track.times[n] - time) < tolerance
             THEN [track |-> track, index |-> n - 1]
             ELSE [ track |-> [track EXCEPT !.times = Append(@, time),
                                            !.values = Append(@, InterpolatedRow(track, time))],
                    index |-> n ]
        ELSE InsertInside(track, time, 0)

\* the sequences of up to MaxKeys increasing keyframe times
IncreasingTimes ==
    { t \in UNION {[1..n -> 0..MaxTime] : n \in 1..MaxKeys} :
        \A k \in 1..(Len(t) - 1) : t[k] < t[k + 1] }

\* a source track: the node it is bound to, the property, the index of the
\* morph target it names (Undefined for a name the node does not know, Absent
\* for a track without one), its interpolation and its keyframe times
SourceTrack(nodeName, propertyName, targetIndex, interpolation, times) ==
    [ nodeName |-> nodeName, propertyName |-> propertyName, targetIndex |-> targetIndex,
      interpolation |-> interpolation, times |-> times ]

\* the source track that may stand at place i of a clip
SourceTracks(i) ==
    { SourceTrack(1, "morphTargetInfluences", i - 1, "LINEAR", t) : t \in IncreasingTimes }
    \cup { SourceTrack(2, "morphTargetInfluences", i - 1, "DISCRETE", t) :
              t \in {<<0>>, <<1, 4>>} }
    \cup { SourceTrack(1, "position", Absent, "LINEAR", <<0, 3>>),
           SourceTrack(1, "morphTargetInfluences", Absent, "LINEAR", <<0, 3>>),
           SourceTrack(1, "morphTargetInfluences", Undefined, "LINEAR", <<0, 3>>),
           SourceTrack(1, "morphTargetInfluences", i - 1, "CUBICSPLINE", <<0, 3>>) }

Clips == {<<a>> : a \in SourceTracks(1)}
             \cup {<<a, b>> : a \in SourceTracks(1), b \in SourceTracks(2)}

MergeRunning == ~merging.returned /\ merging.thrown = "" /\ merging.i <= Len(clipIn)

NextTrack == clipIn[merging.i]

\* a track that is left as it is
MergePassThrough ==
    /\ MergeRunning /\ merging.j = 0 /\ LeftAsIs(NextTrack)
    /\ merging' = [merging EXCEPT !.i = @ + 1,
                                  !.tracks = Append(@, [ merged |-> FALSE,
                                                         source |-> merging.i,
                                                         nodeName |-> NextTrack.nodeName,
                                                         times |-> NextTrack.times,
                                                         values |-> <<>> ])]
    /\ UNCHANGED clipIn

\* glTF CUBICSPLINE interpolation, or a morph target name the node lacks
MergeThrow ==
    /\ MergeRunning /\ merging.j = 0 /\ ~LeftAsIs(NextTrack)
    /\ NextTrack.interpolation = "CUBICSPLINE" \/ NextTrack.targetIndex = Undefined
    /\ merging' = [merging EXCEPT !.thrown =
                       IF NextTrack.interpolation = "CUBICSPLINE"
                       THEN "Cannot merge tracks with glTF CUBICSPLINE interpolation"
                       ELSE "Morph target name not found"]
    /\ UNCHANGED clipIn

Mergeable(track) ==
    ~LeftAsIs(track) /\ track.interpolation # "CUBICSPLINE" /\ track.targetIndex # Undefined

\* the first track seen for its node: its clone, widened to one value per
\* target, becomes the node's merged track
MergeFirst ==
    /\ MergeRunning /\ merging.j = 0 /\ Mergeable(NextTrack)
    /\ ~MapHas(merging.mergedTracks, NextTrack.nodeName)
    /\ merging' =
           [merging EXCEPT
               !.i = @ + 1,
               !.mergedTracks = MapSet(@, NextTrack.nodeName, Len(merging.tracks) + 1),
               !.tracks = Append(@,
                   [ merged |-> TRUE,
                     source |-> merging.i,
                     nodeName |-> NextTrack.nodeName,
                     times |-> NextTrack.times,
                     values |-> [k \in 1..Len(NextTrack.times) |->
                                    [c \in 1..TargetCount |->
                                        IF c = NextTrack.targetIndex + 1
                                        THEN KeyframeValue(merging.i, NextTrack.times[k])
                                        ELSE ZeroValue]] ])]
    /\ UNCHANGED clipIn

\* a further track of a node: every keyframe the merged track has gets the
\* source track's value at its time
MergeEvaluate ==
    /\ MergeRunning /\ merging.j = 0 /\ Mergeable(NextTrack)
    /\ MapHas(merging.mergedTracks, NextTrack.nodeName)
    /\ LET m == merging.mergedTracks[NextTrack.nodeName]
       IN  merging' =
               [merging EXCEPT
                   !.j = 1,
                   !.tracks[m].values =
                       [k \in 1..Len(@) |->
                           [@[k] EXCEPT ![NextTrack.targetIndex + 1] =
                               EvaluatedValue(merging.i, merging.tracks[m].times[k])]]]
    /\ UNCHANGED clipIn

\* one keyframe of the source track goes into the merged track; the loop's
\* end moves on to the next source track
MergeInsert ==
    /\ MergeRunning /\ merging.j >= 1
    /\ LET m == merging.mergedTracks[NextTrack.nodeName]
           time == NextTrack.times[merging.j]
           ins == insertKeyframe(merging.tracks[m], time)
           last == merging.j = Len(NextTrack.times)
       IN  merging' =
               [merging EXCEPT
                   !.i = IF last THEN @ + 1 ELSE @,
                   !.j = IF last THEN 0 ELSE @ + 1,
                   !.tracks[m] =
                       [ins.track EXCEPT !.values[ins.index + 1][NextTrack.targetIndex + 1] =
                           KeyframeValue(merging.i, time)]]
    /\ UNCHANGED clipIn

\* clip.tracks = tracks; return clip
MergeReturn ==
    /\ ~merging.returned /\ merging.thrown = "" /\ merging.i > Len(clipIn)
    /\ merging' = [merging EXCEPT !.returned = TRUE]
    /\ UNCHANGED clipIn

InitM ==
    /\ IdleRegistry /\ IdleGLB /\ IdleParse /\ IdleAccessor /\ IdleKeyframe
    /\ graph = [ parent |-> Flat, visible |-> AllTrue, inScene |-> AllTrue,
                 type |-> [o \in Obj |-> "Object3D"], mesh |-> PlainMeshes, bones |-> NoBones ]
    /\ options = DefaultOptions
    /\ writer = NewWriter
    /\ clipIn \in Clips
    /\ merging = [ i |-> 1, j |-> 0, tracks |-> <<>>, mergedTracks |-> <<>>, thrown |-> "",
                   returned |-> FALSE ]

NextM ==
    \/ (MergePassThrough /\ UNCHANGED <<rvars, gvars, wvars, evars, avars, kvars>>)
    \/ (MergeThrow /\ UNCHANGED <<rvars, gvars, wvars, evars, avars, kvars>>)
    \/ (MergeFirst /\ UNCHANGED <<rvars, gvars, wvars, evars, avars, kvars>>)
    \/ (MergeEvaluate /\ UNCHANGED <<rvars, gvars, wvars, evars, avars, kvars>>)
    \/ (MergeInsert /\ UNCHANGED <<rvars, gvars, wvars, evars, avars, kvars>>)
    \/ (MergeReturn /\ UNCHANGED <<rvars, gvars, wvars, evars, avars, kvars>>)

SpecMerge == InitM /\ [][NextM]_vars

(***************************************************************************)
(* SpecKeyframe: one call of GLTFExporterUtils.insertKeyframe(track, time) *)
(* on a track of up to MaxKeys keyframes at strictly increasing times.     *)
(***************************************************************************)
\* track.values of a track that was not touched yet: per keyframe one value
\* for each of the valueSize components
OwnValues(times) ==
    [k \in 1..Len(times) |-> [c \in 1..TargetCount |-> KeyframeValue(c, times[k])]]

KeyframeTracks ==
    { [times |-> t, values |-> OwnValues(t)] : t \in IncreasingTimes \cup {<<>>} }

CallInsertKeyframe ==
    /\ keyOut = <<>>
    /\ keyOut' = <<insertKeyframe(keyIn.track, keyIn.time)>>
    /\ UNCHANGED keyIn

InitK ==
    /\ IdleRegistry /\ IdleGLB /\ IdleParse /\ IdleAccessor /\ IdleMerge
    /\ graph = [ parent |-> Flat, visible |-> AllTrue, inScene |-> AllTrue,
                 type |-> [o \in Obj |-> "Object3D"], mesh |-> PlainMeshes, bones |-> NoBones ]
    /\ options = DefaultOptions
    /\ writer = NewWriter
    /\ keyIn \in [track : KeyframeTracks, time : 0..MaxTime]
    /\ keyOut = <<>>

NextK == CallInsertKeyframe /\ UNCHANGED <<rvars, gvars, wvars, evars, avars, clipIn, merging>>

SpecKeyframe == InitK /\ [][NextK]_vars

(***************************************************************************)
(* Properties.                                                             *)
(***************************************************************************)
Without(list, f) ==
    LET Keep(x) == x # f IN SelectSeq(list, Keep)

\* C10: after any sequence of register and unregister calls the factory list
\* holds no factory twice; registering a present factory and unregistering an
\* absent one leave the list as it was; unregistering a present factory removes
\* exactly that entry and keeps the order of the others; registering an absent
\* factory (also one unregistered before) appends it at the end.
C10_RegistryIsOrderedSet ==
    /\ NoDuplicates(pluginCallbacks)
    /\ (lastCall.op = "register" /\ InSeq(lastCall.f, lastCall.before))
           => pluginCallbacks = lastCall.before
    /\ (lastCall.op = "register" /\ ~InSeq(lastCall.f, lastCall.before))
           => pluginCallbacks = lastCall.before \o <<lastCall.f>>
    /\ (lastCall.op = "unregister" /\ ~InSeq(lastCall.f, lastCall.before))
           => pluginCallbacks = lastCall.before
    /\ (lastCall.op = "unregister" /\ InSeq(lastCall.f, lastCall.before))
           => /\ pluginCallbacks = Without(lastCall.before, lastCall.f)
              /\ Len(pluginCallbacks) = Len(lastCall.before) - 1

\* a built-in factory was unregistered and registered again behind a custom
\* one, and then registered once more
C10_Witness ==
    /\ lastCall.op = "register" /\ lastCall.f = 1
    /\ lastCall.before = pluginCallbacks
    /\ Len(pluginCallbacks) >= 2
    /\ pluginCallbacks[Len(pluginCallbacks)] = 1

ReadUint32LE(bytes, offset) ==
    bytes[offset + 1] + 256 * bytes[offset + 2] + 65536 * bytes[offset + 3]
        + 16777216 * bytes[offset + 4]

\* bytes[from+1 .. from+Len(data)] are `data`, followed up to from+chunkLength
\* by `pad` only, with fewer than four of them and chunkLength a multiple of 4
IsPaddedChunk(bytes, from, chunkLength, data, pad) ==
    /\ chunkLength % 4 = 0
    /\ chunkLength >= Len(data) /\ chunkLength - Len(data) < 4
    /\ Len(bytes) >= from + chunkLength
    /\ \A k \in 1..chunkLength :
           bytes[from + k] = IF k <= Len(data) THEN data[k] ELSE pad

\* C1: the bytes handed to onDone in binary mode are a 12-byte header (magic
\* 0x46546C67, version 2, total length of the file), the JSON chunk prefix
\* (length, type 0x4E4F534A), the JSON text padded with 0x20 to a multiple of
\* 4, the BIN chunk prefix (length, type 0x004E4942) and the binary data padded
\* with 0x00 to a multiple of 4; each length field is its chunk's padded
\* length and the total is 12 + 8 + JSON chunk + 8 + BIN chunk.
C1_GLBFraming ==
    glbOut # <<>> =>
        LET jsonChunkLength == ReadUint32LE(glbOut, 12)
            binChunkLength == ReadUint32LE(glbOut, 20 + jsonChunkLength)
        IN  /\ Len(glbOut) >= 28
            /\ ReadUint32LE(glbOut, 0) = 1179937895
            /\ ReadUint32LE(glbOut, 4) = 2
            /\ ReadUint32LE(glbOut, 8) = Len(glbOut)
            /\ ReadUint32LE(glbOut, 16) = 1313821514
            /\ IsPaddedChunk(glbOut, 20, jsonChunkLength, glbIn.json, 32)
            /\ ReadUint32LE(glbOut, 24 + jsonChunkLength) = 5130562
            /\ IsPaddedChunk(glbOut, 28 + jsonChunkLength, binChunkLength, glbIn.bin, 0)
            /\ Len(glbOut) = 12 + 8 + jsonChunkLength + 8 + binChunkLength

\* a GLB of a scene without binary data whose JSON text needed padding
C1_Witness ==
    /\ glbOut # <<>>
    /\ glbIn.bin = <<>>
    /\ Len(glbIn.json) % 4 = 3

\* C3: every bufferView has a byteOffset and a byteLength that are multiples
\* of 4; a bufferView with target ARRAY_BUFFER has a byteStride that is a
\* multiple of 4 and at least itemSize * componentSize; no other bufferView has
\* a byteStride.
C3_BufferViewAlignment ==
    /\ Len(writer.json.bufferViews) = Len(bvCalls)
    /\ \A k \in 1..Len(bvCalls) :
           LET bufferViewDef == writer.json.bufferViews[k]
               call == bvCalls[k]
               componentSize == IF call.componentType = UNSIGNED_BYTE THEN 1
                                ELSE IF call.componentType = UNSIGNED_SHORT THEN 2 ELSE 4
           IN  /\ bufferViewDef.byteOffset % 4 = 0
               /\ bufferViewDef.byteLength % 4 = 0
               /\ (~call.image /\ call.target = ARRAY_BUFFER) =>
                      /\ bufferViewDef.target = ARRAY_BUFFER
                      /\ bufferViewDef.byteStride # Absent
                      /\ bufferViewDef.byteStride % 4 = 0
                      /\ bufferViewDef.byteStride >= call.itemSize * componentSize
               /\ (call.image \/ call.target # ARRAY_BUFFER) =>
                      /\ bufferViewDef.target # ARRAY_BUFFER
                      /\ bufferViewDef.byteStride = Absent

\* an image bufferView of a 3-byte blob, then a vertex bufferView of three
\* unsigned bytes per element
C3_Witness ==
    /\ Len(bvCalls) = 2
    /\ bvCalls[1].image /\ bvCalls[1].count = 3
    /\ ~bvCalls[2].image /\ bvCalls[2].target = ARRAY_BUFFER
    /\ bvCalls[2].itemSize = 3 /\ bvCalls[2].componentType = UNSIGNED_BYTE
    /\ writer.json.bufferViews[2].byteStride = 4

InArray(i, array) == i \in 0..(Len(array) - 1)

OptionalIn(i, array) == i = Absent \/ InArray(i, array)

IndexClosure(json) ==
    /\ \A a \in Range(json.accessors) : InArray(a.bufferView, json.bufferViews)
    /\ \A m \in Range(json.meshes) : \A p \in Range(m.primitives) :
           /\ \A at \in Range(p.attributes) : InArray(at.accessor, json.accessors)
           /\ OptionalIn(p.indices, json.accessors)
           /\ OptionalIn(p.material, json.materials)
    /\ \A n \in Range(json.nodes) :
           /\ OptionalIn(n.mesh, json.meshes)
           /\ OptionalIn(n.camera, json.cameras)
           /\ OptionalIn(n.skin, json.skins)
           /\ \A c \in Range(n.children) : InArray(c, json.nodes)
    /\ \A sc \in Range(json.scenes) : \A c \in Range(sc.nodes) : InArray(c, json.nodes)
    /\ \A an \in Range(json.animations) :
           /\ \A sm \in Range(an.samplers) :
                  InArray(sm.input, json.accessors) /\ InArray(sm.output, json.accessors)
           /\ \A ch \in Range(an.channels) :
                  InArray(ch.sampler, an.samplers) /\ InArray(ch.target.node, json.nodes)
    /\ \A sk \in Range(json.skins) :
           /\ \A jt \in Range(sk.joints) : InArray(jt, json.nodes)
           /\ InArray(sk.skeleton, json.nodes)
           /\ InArray(sk.inverseBindMatrices, json.accessors)

\* C2: in the document a completed write hands to onDone, every integer
\* reference (accessor.bufferView, primitive attributes / indices / material,
\* node mesh / camera / skin / children, scene nodes, animation sampler input /
\* output, channel target node, skin joints / skeleton / inverseBindMatrices)
\* is the index of an existing element of its target array, never null or
\* undefined.
C2_IndexClosure == onDoneCalls = 1 => IndexClosure(output.json)

\* C4: chunk k belongs to bufferView k alone: its byteOffset is the sum of the
\* lengths of the chunks before it and its byteLength the chunk's length;
\* writer.byteOffset is the sum of all chunk lengths; from finalization on
\* json.buffers[0].byteLength is that sum.
C4_ChunksAreContiguous ==
    LET lengths == [k \in 1..Len(writer.buffers) |-> writer.buffers[k].byteLength]
    IN  /\ Len(writer.json.bufferViews) = Len(writer.buffers)
        /\ \A k \in 1..Len(writer.buffers) :
               /\ writer.json.bufferViews[k].buffer = 0
               /\ writer.json.bufferViews[k].byteOffset = SumSeq(SubSeq(lengths, 1, k - 1))
               /\ writer.json.bufferViews[k].byteLength = lengths[k]
        /\ writer.byteOffset = SumSeq(lengths)
        /\ (pc \in {"emit", "done"} /\ writer.buffers # <<>>) =>
               /\ Len(writer.json.buffers) = 1
               /\ writer.json.buffers[1].byteLength = SumSeq(lengths)
        /\ (onDoneCalls = 1 /\ writer.buffers # <<>>) =>
               output.json.buffers[1].byteLength = SumSeq(lengths)

\* a finished export with geometry chunks followed by the chunks of two images
C4_Witness ==
    /\ pc = "done"
    /\ \E i, j, k \in 1..Len(writer.buffers) :
           /\ i < j /\ j < k
           /\ writer.buffers[i].kind = "attribute"
           /\ writer.buffers[j].kind = "image"
           /\ writer.buffers[k].kind = "image"

\* C5: onDone is not invoked, and the buffers are not merged, while an encode
\* of the pending list is unfinished; in the document onDone receives, every
\* image definition has its bufferView (binary mode) or its uri (JSON mode).
C5_DoneAfterPending ==
    /\ pc \in {"emit", "done"} =>
           \A k \in 1..Len(writer.pending) : writer.pending[k].state = "fulfilled"
    /\ onDoneCalls > 0 =>
           /\ \A k \in 1..Len(writer.pending) : writer.pending[k].state = "fulfilled"
           /\ \A im \in Range(output.json.images) :
                  IF output.binary
                  THEN InArray(im.bufferView, output.json.bufferViews)
                  ELSE im.uri # Absent

\* onDone got a GLB with two images
C5_Witness ==
    /\ onDoneCalls = 1 /\ output.binary
    /\ Len(output.json.images) >= 2
    /\ Len(writer.pending) >= 2

\* the writer after the pending encodes k, k + 1, ... completed one by one in
\* the order of their discovery
RECURSIVE SettledInDiscoveryOrder(_, _)
SettledInDiscoveryOrder(w, k) ==
    IF k > Len(w.pending) THEN w
    ELSE SettledInDiscoveryOrder(EncodeAssigned(EncodeViewed(w, k), k), k + 1)

OutputOf(w) == [binary |-> TRUE, json |-> w.json, blob |-> w.buffers]

\* C6 as stated: the output of a binary export is the same for every
\* completion order of the pending encodes, hence the one of the order of
\* discovery.
C6_SameOutputForEveryOrder ==
    (pc = "done" /\ output.binary) =>
        output = OutputOf(Finalized(SettledInDiscoveryOrder(atAwait, 1)))

\* C6 as amended: image indices and image definitions are fixed at discovery;
\* the completion of an encode appends one bufferView and one chunk behind
\* those present and sets only the bufferView of its own image definition, so
\* the outputs of two completion orders differ at most in the order of the
\* image bufferViews and chunks and in the bufferView numbers of the images.
C6_CompletionOrder ==
    (writer.options.binary /\ pc \in {"await", "emit", "done"}) =>
        LET a == atAwait.json
            j == writer.json
            n == Len(writer.pending)
            completed == {k \in 1..n : writer.pending[k].state \in {"viewed", "fulfilled"}}
        IN  /\ Len(j.images) = Len(a.images)
            /\ n = Len(atAwait.pending)
            /\ \A k \in 1..n : writer.pending[k].imageDef = atAwait.pending[k].imageDef
            /\ \A k, l \in 1..n :
                   writer.pending[k].imageDef = writer.pending[l].imageDef => k = l
            /\ \A i \in 1..Len(j.images) :
                   [j.images[i] EXCEPT !.bufferView = Absent] = a.images[i]
            /\ [j EXCEPT !.images = a.images, !.bufferViews = a.bufferViews,
                         !.buffers = a.buffers, !.extensionsUsed = a.extensionsUsed,
                         !.extensionsRequired = a.extensionsRequired] = a
            /\ SubSeq(j.bufferViews, 1, Len(a.bufferViews)) = a.bufferViews
            /\ SubSeq(writer.buffers, 1, Len(atAwait.buffers)) = atAwait.buffers
            /\ Len(j.bufferViews) = Len(a.bufferViews) + Cardinality(completed)
            /\ \A k \in 1..n :
                   LET e == writer.pending[k]
                   IN  IF e.state = "fulfilled"
                       THEN /\ j.images[e.imageDef + 1].bufferView = e.bufferViewIndex
                            /\ e.bufferViewIndex >= Len(a.bufferViews)
                            /\ InArray(e.bufferViewIndex, j.bufferViews)
                            /\ writer.buffers[e.bufferViewIndex + 1].kind = "image"
                            /\ writer.buffers[e.bufferViewIndex + 1].id = e.image
                       ELSE j.images[e.imageDef + 1].bufferView = Absent
            /\ pc = "done" => output = OutputOf(writer)

\* a GLB was emitted after a later image's encode completed before an earlier one's
C6_Witness ==
    /\ pc = "done" /\ output.binary
    /\ \E k, l \in 1..Len(writer.pending) :
           /\ k < l
           /\ writer.pending[k].bufferViewIndex > writer.pending[l].bufferViewIndex

EncodeRejected == \E k \in 1..Len(writer.pending) : writer.pending[k].state = "rejected"

RECURSIVE PathToTop(_, _)
PathToTop(g, o) == IF o = 0 THEN {} ELSE {o} \cup PathToTop(g, g.parent[o])

\* the objects a traversal reaches: no invisible object on the way, or onlyVisible off
IsExported(o) == \A a \in PathToTop(graph, o) : graph.visible[a] \/ ~options.onlyVisible

ExportedObjects == {o \in Obj : IsExported(o)}

DeferredStarted ==
    \/ skinIdx > 1 \/ animIdx > 1
    \/ writer.json.skins # <<>> \/ writer.json.animations # <<>>

\* C8: processSkin and processAnimation run only after processNode returned
\* for every node of the input scenes and of the auxiliary scene: when the
\* first of them runs, nodeMap has an entry for every exported object, and no
\* node is added to json.nodes from then on.
C8_SkinsAndAnimationsLast ==
    /\ []((pc = "deferred" \/ DeferredStarted) =>
             /\ stack = <<>>
             /\ inputIdx > Len(Input)
             /\ pc \notin {"start", "processInput", "processObjects"}
             /\ \A o \in ExportedObjects : MapHas(writer.nodeMap, o)
             /\ Len(writer.json.nodes) = Cardinality(ExportedObjects))
    /\ [][DeferredStarted =>
             /\ Len(writer'.json.nodes) = Len(writer.json.nodes)
             /\ writer'.nodeMap = writer.nodeMap]_vars

\* a skin and an animation were written for an input of a Scene and of
\* further objects
C8_Witness ==
    /\ pc = "done"
    /\ Len(writer.json.scenes) = 2
    /\ Len(writer.json.skins) = 1
    /\ Len(writer.json.animations) = 1
    /\ Len(writer.json.nodes) = NObj

NodeOf(o) == MapGet(writer.nodeMap, o)

Subtree(o) == {o} \cup Descendants(graph, o)

\* the node indices of the exported objects of a child list, in list order
ExportedIndices(list) ==
    LET exported == SelectSeq(list, IsExported)
    IN  [k \in 1..Len(exported) |-> NodeOf(exported[k])]

AuxChildren == SortedSeq({o \in Obj : graph.parent[o] = 0 /\ ~graph.inScene[o]})

ChildLists == {Children(graph, SceneId), AuxChildren} \cup {Children(graph, o) : o \in Obj}

\* C9: node indices are dense; for siblings A before B of a child list (or of
\* a scene's list) every index of A's exported subtree is below every index of
\* B's; a node's children and a scene's nodes list the child indices in
\* child-list order.
C9_DepthFirstChildOrder ==
    (stack = <<>> /\ pc \in {"deferred", "await", "emit", "done"}) =>
        /\ \A o \in ExportedObjects :
               /\ InArray(NodeOf(o), writer.json.nodes)
               /\ writer.json.nodes[NodeOf(o) + 1].name = o
               /\ writer.json.nodes[NodeOf(o) + 1].children
                      = ExportedIndices(Children(graph, o))
        /\ {NodeOf(o) : o \in ExportedObjects} = 0..(Len(writer.json.nodes) - 1)
        /\ \A list \in ChildLists : \A i, j \in 1..Len(list) :
               i < j =>
                   \A x \in Subtree(list[i]) \cap ExportedObjects,
                      y \in Subtree(list[j]) \cap ExportedObjects : NodeOf(x) < NodeOf(y)
        /\ \A sc \in Range(writer.json.scenes) :
               sc.nodes = IF sc.name = "Scene"
                          THEN ExportedIndices(Children(graph, SceneId))
                          ELSE ExportedIndices(AuxChildren)

\* a finished export with a node of two children
C9_Witness ==
    /\ pc = "done"
    /\ \E n \in Range(writer.json.nodes) : Len(n.children) = 2

Broadcasts(hook) ==
    {k \in 1..Len(writer.broadcasts) : writer.broadcasts[k].hook = hook}

\* the index the writer keeps for the entity of a broadcast, once it has one
StoredIndex(b) ==
    CASE b.hook = "writeTexture" -> MapGet(writer.cache.textures, b.entity)
      [] b.hook = "writeMaterial" -> MapGet(writer.cache.materials, b.entity)
      [] b.hook = "writeMesh" -> MapGet(writer.cache.meshes, b.entity)
      [] b.hook = "writeNode" -> MapGet(writer.nodeMap, b.entity)
      [] OTHER -> Undefined

\* C11: the plug-ins of a write are those of the factories registered when
\* parse was called, in that order, and stay so; every broadcast calls the
\* plug-ins that have the hook in that order, each once; writeTexture,
\* writeMaterial, writeMesh and writeNode are broadcast for an entity that is
\* not in its cache, before its definition is appended (the index it gets is
\* the length of the array at the broadcast); there is one broadcast per
\* definition, so an entity served from a cache triggers none.
C11_HooksInRegistrationOrder ==
    /\ [][pc = "start" /\ pc' # "start" => writer'.plugins = pluginCallbacks]_vars
    /\ [][pc # "start" => writer'.plugins = writer.plugins]_vars
    /\ [](/\ \A k \in 1..Len(writer.broadcasts) :
                 LET b == writer.broadcasts[k]
                     Has(f) == Implements(f, b.hook)
                 IN  /\ b.called = SelectSeq(writer.plugins, Has)
                     /\ NoDuplicates(b.called)
                     /\ b.hook \in {"writeTexture", "writeMaterial", "writeMesh", "writeNode"} =>
                            /\ ~b.cached
                            /\ StoredIndex(b) = b.index
                            /\ \A l \in Broadcasts(b.hook) :
                                   writer.broadcasts[l].entity = b.entity => l = k
          /\ Cardinality(Broadcasts("writeTexture")) = Len(writer.json.textures)
          /\ Cardinality(Broadcasts("writeMaterial")) = Len(writer.json.materials)
          /\ Cardinality(Broadcasts("writeMesh")) = Len(writer.json.meshes)
          /\ Cardinality(Broadcasts("writeNode")) = Len(writer.json.nodes))

\* a finished export whose plug-ins stand in another order than their numbers:
\* writeMesh went to two of them, and a second node got its mesh, with the
\* material and the texture, from the cache
C11_Witness ==
    /\ pc = "done"
    /\ \E k \in Broadcasts("writeMesh") :
           /\ Len(writer.broadcasts[k].called) = 2
           /\ writer.broadcasts[k].called[1] > writer.broadcasts[k].called[2]
    /\ Len(writer.json.meshes) = 1 /\ Len(writer.json.textures) = 1
    /\ \E m, n \in 1..Len(writer.json.nodes) :
           m # n /\ writer.json.nodes[m].mesh = 0 /\ writer.json.nodes[n].mesh = 0

SameCompletionOrder ==
    /\ Len(writer.pending) = Len(other[1].writer.pending)
    /\ \A k \in 1..Len(writer.pending) :
           writer.pending[k].bufferViewIndex = other[1].writer.pending[k].bufferViewIndex

AccessorsOf(w, source) ==
    { a \in 0..(Len(w.json.accessors) - 1) :
        LET chunk == w.buffers[w.json.accessors[a + 1].bufferView + 1]
        IN  chunk.kind = "attribute" /\ ~IsRelativeCopy(chunk.id)
            /\ CopiedFrom(chunk.id) = source }

\* the attribute objects that hold data, of the geometry of exported mesh `key`
HeldAttributes(key) ==
    { e.attribute : e \in { x \in Range(Geometries[key[1]].attributes) :
                               Attributes[x.attribute].count > 0 } }

C16_JsonBufferIsDataUri ==
    (pc = "done" /\ ~output.binary) =>
        IF writer.buffers # <<>>
        THEN /\ Len(output.json.buffers) = 1
             /\ output.json.buffers[1].byteLength = BlobSize(writer.buffers)
             /\ LET uri == output.json.buffers[1].uri
                IN  /\ Len(uri) >= 2
                    /\ uri[1] = Literal("data:")
                    /\ uri[Len(uri)] = ToBase64(writer.buffers)
        ELSE /\ output.json.buffers = <<>>
             /\ output.json = writer.json

\* the nodes emitted for object o
NodesNamed(o) == {k \in 1..Len(writer.json.nodes) : writer.json.nodes[k].name = o}

\* C17: with onlyVisible on, a node is emitted for an object only if the
\* object and all its ancestors are visible, and once the traversal is over
\* exactly the objects with that property have a node, one each; with
\* onlyVisible off every object has exactly one node. In every state the
\* entries of every `children` list and of every scene's `nodes` list are
\* nodes of such objects, listed under their parent.
C17_VisibleSubtreesOnly ==
    /\ \A o \in Obj :
           /\ Cardinality(NodesNamed(o)) <= 1
           /\ NodesNamed(o) # {} =>
                  \A a \in PathToTop(graph, o) : graph.visible[a] \/ ~options.onlyVisible
    /\ \A n \in Range(writer.json.nodes) : \A c \in Range(n.children) :
           /\ c + 1 \in 1..Len(writer.json.nodes)
           /\ graph.visible[writer.json.nodes[c + 1].name] \/ ~options.onlyVisible
           /\ graph.parent[writer.json.nodes[c + 1].name] = n.name
    /\ \A sc \in Range(writer.json.scenes) : \A c \in Range(sc.nodes) :
           /\ c + 1 \in 1..Len(writer.json.nodes)
           /\ graph.visible[writer.json.nodes[c + 1].name] \/ ~options.onlyVisible
           /\ graph.parent[writer.json.nodes[c + 1].name] = 0
    /\ (stack = <<>> /\ pc \in {"deferred", "await", "emit", "done"}) =>
           \A o \in Obj :
               Cardinality(NodesNamed(o)) =
                   IF options.onlyVisible
                   THEN (IF \A a \in PathToTop(graph, o) : graph.visible[a] THEN 1 ELSE 0)
                   ELSE 1

\* a finished export with onlyVisible on of a tree in which an invisible
\* object has a visible child and another object was emitted
C17_Witness ==
    /\ pc = "done" /\ options.onlyVisible
    /\ writer.json.nodes # <<>>
    /\ \E o, c \in Obj :
           /\ ~graph.visible[o] /\ graph.visible[c] /\ graph.parent[c] = o
           /\ NodesNamed(o) = {} /\ NodesNamed(c) = {}

\* the stored number of component i of element k of the call's attribute
SourceAt(k, i) == accIn.attribute.array[k * accIn.attribute.itemSize + i + 1]

CallStart == IF accIn.start = Undefined THEN 0 ELSE accIn.start
CallCount == IF accIn.count = Undefined THEN accIn.attribute.count ELSE accIn.count
CallRange == CallStart..(CallStart + CallCount - 1)

C18_MergedKeyframesApart ==
    merging.returned =>
        \A t \in Range(merging.tracks) :
            t.merged => \A k \in 1..(Len(t.times) - 1) : t.times[k + 1] - t.times[k] > tolerance

\* the entries of the morph targets of all primitives emitted so far
TargetEntries ==
    UNION { Range(target) : target \in UNION { Range(mesh.primitives[1].targets) :
                                                 mesh \in Range(writer.json.meshes) } }

\* the accessor was built from a relative copy of morph attribute `source`
BuiltFromMorph(accessor, source) ==
    LET chunk == writer.buffers[writer.json.accessors[accessor + 1].bufferView + 1]
    IN  chunk.kind = "attribute" /\ IsRelativeCopy(chunk.id) /\ CopiedFrom(chunk.id) = source

\* morph attribute `source` got one accessor, carried by every target of it
MorphAccessorReused(source) ==
    /\ \A d, e \in TargetEntries :
           (d.source = source /\ e.source = source) => d.accessor = e.accessor
    /\ Cardinality({a \in 0..(Len(writer.json.accessors) - 1) : BuiltFromMorph(a, source)}) <= 1

\* the accessor a target carries, if it carries one, was built from the
\* target's own morph attribute
MorphAccessorIsOwn(e) == e.accessor # Null => BuiltFromMorph(e.accessor, e.source)

\* C20: in every state of an export, all targets of one morph attribute
\* object carry the same accessor and no second accessor or bufferView was
\* built for it, and the accessor a target carries was built from the
\* target's own morph attribute.
C20_MorphAccessorsCached ==
    \A e \in TargetEntries : MorphAccessorReused(e.source) /\ MorphAccessorIsOwn(e)

(***************************************************************************)
(* Textures.                                                               *)
(***************************************************************************)
\* the map definitions of a document: <<the source texture a material slot
\* holds, the texture index the material's definition carries for it>>
MapDefs(json) ==
    { <<Materials[d.name].map, d.baseColorTexture>> :
        d \in {x \in Range(json.materials) : Materials[x.name].map # Null} }
    \cup { <<Materials[d.name].emissiveMap, d.emissiveTexture>> :
             d \in {x \in Range(json.materials) : Materials[x.name].emissiveMap # Null} }

\* the source textures the emitted materials reference
SourceTextures(json) == { m[1] : m \in MapDefs(json) }

\* C21: in the document handed to onDone, every map definition that references
\* one source texture carries the same texture index, and json.textures has
\* exactly one entry per referenced source texture, with one sampler each and
\* no more images than textures - for compressed textures too.
C21_OneTexturePerSource ==
    onDoneCalls = 1 =>
        /\ \A a, b \in MapDefs(output.json) : a[1] = b[1] => a[2] = b[2]
        /\ Len(output.json.textures) = Cardinality(SourceTextures(output.json))
        /\ Len(output.json.samplers) = Len(output.json.textures)
        /\ Len(output.json.images) <= Len(output.json.textures)

(***************************************************************************)
(* The mesh cache.                                                         *)
(***************************************************************************)
\* the node definitions of the mesh objects exported so far
MeshNodes == { n \in Range(writer.json.nodes) : IsMesh(graph, n.name) }

\* the same geometry uuid and the same material uuids in the same bind order
SameUuids(a, b) ==
    /\ graph.mesh[a].geometry = graph.mesh[b].geometry
    /\ MaterialsOf(graph.mesh[a].material) = MaterialsOf(graph.mesh[b].material)

\* a step that entered processNode for a mesh object
MeshVisited ==
    /\ Len(stack') = Len(stack) + 1
    /\ stack'[Len(stack')].kind = "node"
    /\ IsMesh(graph, stack'[Len(stack')].obj)

\* the mesh object of that step, and what processMesh returned for it
VisitedMesh == graph.mesh[stack'[Len(stack')].obj]
VisitedIndex == stack'[Len(stack')].def.mesh

\* the second visit of a key adds no mesh, primitive, accessor or material
SecondVisitAddsNothing ==
    (MeshVisited /\ \E k \in DOMAIN writer.cache.meshes :
                        /\ k[1] = VisitedMesh.geometry
                        /\ Tail(k) = MaterialsOf(VisitedMesh.material))
    => /\ VisitedIndex = writer.cache.meshes[<<VisitedMesh.geometry>>
                                              \o MaterialsOf(VisitedMesh.material)]
       /\ writer'.json.meshes = writer.json.meshes
       /\ writer'.json.accessors = writer.json.accessors
       /\ writer'.json.materials = writer.json.materials

\* a mesh for which processMesh returned null is not entered in the cache,
\* and one for which it returned an index is, with that index
NullIsNotCached ==
    MeshVisited
    => LET held == { k \in DOMAIN writer'.cache.meshes :
                       /\ k[1] = VisitedMesh.geometry
                       /\ Tail(k) = MaterialsOf(VisitedMesh.material) }
       IN  IF VisitedIndex = Absent THEN held = {}
           ELSE \A k \in held : writer'.cache.meshes[k] = VisitedIndex

\* C22 as stated: two mesh objects of equal geometry uuid and material uuids
\* always receive the same mesh index, the second visit adds nothing, meshes of
\* different keys receive distinct entries, and a null is not cached.
C22_SameKeySameMesh ==
    /\ [](\A a, b \in MeshNodes :
             /\ SameUuids(a.name, b.name) => a.mesh = b.mesh
             /\ (~SameUuids(a.name, b.name) /\ a.mesh # Absent) => a.mesh # b.mesh)
    /\ [][SecondVisitAddsNothing /\ NullIsNotCached]_vars

\* C22, amended: two mesh objects of equal geometry uuid and material uuids
\* that both received a mesh received the same one, and the later visit added
\* no mesh, primitive, accessor or material; meshes of different keys receive
\* distinct entries; a null is not cached, so that a later mesh of the same key
\* is processed afresh.
C22_MeshCacheByKey ==
    /\ [](\A a, b \in MeshNodes :
             /\ (SameUuids(a.name, b.name) /\ a.mesh # Absent /\ b.mesh # Absent)
                    => a.mesh = b.mesh
             /\ (~SameUuids(a.name, b.name) /\ a.mesh # Absent) => a.mesh # b.mesh)
    /\ [][SecondVisitAddsNothing /\ NullIsNotCached]_vars

\* two mesh objects of one key share a mesh while another key has its own
C22_Witness ==
    /\ onDoneCalls = 1
    /\ \E a, b, c \in MeshNodes :
           /\ a.name # b.name /\ SameUuids(a.name, b.name) /\ a.mesh = b.mesh
           /\ a.mesh # Absent /\ c.mesh # Absent /\ c.mesh # a.mesh
           /\ graph.mesh[c.name].geometry = graph.mesh[a.name].geometry

(***************************************************************************)
(* insertKeyframe and mergeMorphTargetTracks.                              *)
(***************************************************************************)
StrictlyIncreasing(times) == \A k \in 1..(Len(times) - 1) : times[k] < times[k + 1]

\* an existing keyframe lies within the tolerance of the time
KeyframeNear(times, time) == \E k \in 1..Len(times) : MathAbs(times[k] - time) < tolerance

\* C23: insertKeyframe(track, t) on strictly increasing times returns an index
\* whose keyframe is within 0.001 of t; a keyframe is inserted if and only if
\* no existing keyframe lies within 0.001 of t, and otherwise the track is left
\* unchanged; afterwards times is strictly increasing and at most one longer,
\* values has valueSize numbers per keyframe, and every keyframe the track had
\* has kept its values.
C23_InsertKeyframe ==
    keyOut # <<>> =>
        LET before == keyIn.track
            after == keyOut[1].track
            index == keyOut[1].index
        IN  /\ index \in 0..(Len(after.times) - 1)
            /\ MathAbs(after.times[index + 1] - keyIn.time) < tolerance
            /\ (Len(after.times) = Len(before.times) + 1)
                   <=> ~KeyframeNear(before.times, keyIn.time)
            /\ KeyframeNear(before.times, keyIn.time) => after = before
            /\ StrictlyIncreasing(after.times)
            /\ Len(after.times) <= Len(before.times) + 1
            /\ Len(after.values) = Len(after.times)
            /\ \A k \in 1..Len(after.values) : Len(after.values[k]) = TargetCount
            /\ \A k \in 1..Len(before.times) :
                   \E j \in 1..Len(after.times) :
                       after.times[j] = before.times[k] /\ after.values[j] = before.values[k]

\* the source tracks of the clip that are merged, and the first one per node
MergedSources == { i \in 1..Len(clipIn) : Mergeable(clipIn[i]) }

FirstOfNode(i) ==
    i \in MergedSources
    /\ \A j \in MergedSources : clipIn[j].nodeName = clipIn[i].nodeName => i <= j

\* the track of the result that holds node n's morph targets
MergedTrackOf(n) ==
    merging.tracks[CHOOSE k \in 1..Len(merging.tracks) :
                       merging.tracks[k].merged /\ merging.tracks[k].nodeName = n]

\* (c) of C24: every keyframe of a merged source track is found in the merged
\* track, within the tolerance of its time and with its value
SourceKeyframesKept ==
    \A i \in MergedSources :
        \A t \in Range(clipIn[i].times) :
            LET track == MergedTrackOf(clipIn[i].nodeName)
            IN  \E j \in 1..Len(track.times) :
                    /\ MathAbs(track.times[j] - t) < tolerance
                    /\ track.values[j][clipIn[i].targetIndex + 1] = KeyframeValue(i, t)

\* (a), (b) and the last sentence of C24
MergedTracksPlaced ==
    /\ \A k \in 1..(Len(merging.tracks) - 1) :
           merging.tracks[k].source < merging.tracks[k + 1].source
    /\ { tr.source : tr \in {x \in Range(merging.tracks) : ~x.merged} }
           = { i \in 1..Len(clipIn) : LeftAsIs(clipIn[i]) }
    /\ \A tr \in Range(merging.tracks) :
           ~tr.merged => /\ tr.nodeName = clipIn[tr.source].nodeName
                         /\ tr.times = clipIn[tr.source].times
    /\ { tr.source : tr \in {x \in Range(merging.tracks) : x.merged} }
           = { i \in MergedSources : FirstOfNode(i) }
    /\ \A tr \in Range(merging.tracks) :
           tr.merged =>
               /\ tr.nodeName = clipIn[tr.source].nodeName
               /\ Len(tr.values) = Len(tr.times)
               /\ \A k \in 1..Len(tr.values) :
                      /\ Len(tr.values[k]) = TargetCount
                      /\ \A c \in 1..TargetCount :
                             (\A i \in MergedSources :
                                  clipIn[i].nodeName = tr.nodeName
                                      => clipIn[i].targetIndex + 1 # c)
                                 => tr.values[k][c] = ZeroValue

\* C24: the clip mergeMorphTargetTracks returns has (a) every other track
\* passed through in its relative order, (b) one merged track per node at the
\* place of the node's first morph track, with N values per keyframe, and (c)
\* for every source keyframe (t, v) of target k a keyframe within 0.001 of t
\* whose component k is v; the components of targets without a source track
\* are 0.
C24_MergedClip ==
    merging.returned => MergedTracksPlaced /\ SourceKeyframesKept

(***************************************************************************)
(* Accessors without data.                                                 *)
(***************************************************************************)
\* the primitives of the document
Primitives == UNION { Range(mesh.primitives) : mesh \in Range(writer.json.meshes) }

\* the accessor references a primitive carries: its attributes, its indices
\* and the attributes of its morph targets
AccessorReferences(p) ==
    { e.accessor : e \in Range(p.attributes) }
    \cup (IF p.indices = Absent THEN {} ELSE {p.indices})
    \cup UNION { { e.accessor : e \in Range(p.targets[t]) } : t \in 1..Len(p.targets) }

\* every attribute and the index of the visited mesh's geometry are empty
VisitedWithoutData ==
    LET geometry == Geometries[VisitedMesh.geometry]
    IN  /\ \A e \in Range(geometry.attributes) : Attributes[e.attribute].count = 0
        /\ geometry.index # Null => Attributes[geometry.index].count = 0

\* processAccessor calls that return null change neither the document's
\* accessors, bufferViews and buffers nor the chunk list and byteOffset
NullChangesNothing ==
    (MeshVisited /\ VisitedWithoutData)
    => /\ writer'.json.accessors = writer.json.accessors
       /\ writer'.json.bufferViews = writer.json.bufferViews
       /\ writer'.json.buffers = writer.json.buffers
       /\ writer'.buffers = writer.buffers
       /\ writer'.byteOffset = writer.byteOffset

\* C25: processAccessor returns null for a count of 0 and leaves accessors,
\* bufferViews, buffers, chunks and byteOffset as they were: no accessor has
\* count 0; and a null accessor is left out of the primitive, so that no
\* accessor reference of a primitive is null.
C25_NullAccessorsLeftOut ==
    /\ [](/\ \A a \in Range(writer.json.accessors) : a.count > 0
          /\ \A p \in Primitives : Null \notin AccessorReferences(p))
    /\ [][NullChangesNothing]_vars

(***************************************************************************)
(* The caller's geometries after processMesh.                              *)
(***************************************************************************)
\* geometry.getAttribute('normal') and geometry.index are the objects the
\* caller put there
AsFound(geometry) ==
    /\ <<geometry, "normal">> \notin DOMAIN writer.geometries
    /\ <<geometry, "index">> \notin DOMAIN writer.geometries

\* C26: whenever processMesh has ended - with an index, with null, or with an
\* exception of processAccessor or processMaterial - every geometry carries
\* the normal attribute and the index it had before the call.
C26_GeometryAsFound == \A geometry \in DOMAIN Geometries : AsFound(geometry)

(***************************************************************************)
(* Skins.                                                                  *)
(***************************************************************************)
\* processInput's loop over this.skins is through
SkinsProcessed == pc \in {"deferred", "await", "emit", "done"} /\ skinIdx > Len(writer.skins)

HasBones(object) == graph.bones[object] # <<>>

\* the recorded skinned objects whose skeleton has a bone, in visit order
Skinned == SelectSeq(writer.skins, HasBones)

\* json.nodes[nodeMap.get(object)]
SkinNode(object) == writer.json.nodes[writer.nodeMap[object] + 1]

\* the skin of the k-th skinned object with bones
SkinOf(k) ==
    LET skin == writer.json.skins[k]
        bones == graph.bones[Skinned[k]]
    IN  /\ Len(skin.joints) = Len(bones)
        /\ \A i \in 1..Len(bones) :
               /\ bones[i] \in DOMAIN writer.nodeMap
               /\ skin.joints[i] = writer.nodeMap[bones[i]]
        /\ skin.skeleton = skin.joints[1]
        /\ writer.json.accessors[skin.inverseBindMatrices + 1].count = Len(bones)
        /\ writer.json.accessors[skin.inverseBindMatrices + 1].type = "MAT4"
        /\ SkinNode(Skinned[k]).skin = k - 1

\* C27: after the loop over the recorded skinned objects, json.skins holds one
\* skin per recorded object with at least one bone, in visit order; joints[i]
\* is the emitted node index of bones[i], skeleton is joints[0], the
\* inverseBindMatrices accessor has one MAT4 per bone, and the object's node
\* names the skin; a recorded object without bones has no skin.
C27_OneSkinPerSkeleton ==
    SkinsProcessed =>
        /\ Len(writer.json.skins) = Len(Skinned)
        /\ \A k \in 1..Len(Skinned) : SkinOf(k)
        /\ \A object \in Range(writer.skins) :
               ~HasBones(object) => SkinNode(object).skin = Absent

(***************************************************************************)
(* Animations.                                                             *)
(***************************************************************************)
\* processInput's loop over options.animations takes its next clip
AnimationProcessed == pc = "deferred" /\ animIdx' = animIdx + 1

\* the tracks processAnimation loops over: those of the clip, the per-index
\* morph tracks of one node counted as the one track they are merged into
TracksOf(clip) ==
    LET merged == MergeSourceTracks(graph, Input[1], clip.tracks, 1, <<>>, <<>>)
    IN  IF merged.thrown = "" THEN merged.tracks ELSE clip.tracks

\* the track's node is found and its property has a glTF path
HasPath(track) ==
    /\ FindNode(graph, Input[1], track.nodeName) # Null
    /\ track.propertyName \in {"scale", "position", "quaternion", "morphTargetInfluences"}

PathOf(propertyName) ==
    CASE propertyName = "scale" -> "scale"
      [] propertyName = "position" -> "translation"
      [] propertyName = "quaternion" -> "rotation"
      [] propertyName = "morphTargetInfluences" -> "weights"

\* the animation appended for the clip
AnimationOf(clip, animation) ==
    LET tracks == SelectSeq(TracksOf(clip), HasPath)
    IN  /\ Len(animation.samplers) = Len(animation.channels)
        /\ \A i \in 1..Len(animation.channels) : animation.channels[i].sampler = i - 1
        /\ Len(animation.channels) = Len(tracks)
        /\ \A i \in 1..Len(tracks) :
               animation.channels[i].target.path = PathOf(tracks[i].propertyName)

\* C28: processAnimation appends exactly one animation for the clip it is
\* given, so that the animations stand in the order of options.animations;
\* its samplers and channels pair up, channels[i].sampler = i; it has one pair
\* per track whose node is found and whose property is scale, position,
\* quaternion or morphTargetInfluences, with the path translated, and none for
\* any other track, the export going on; and the caller's clips stay as they
\* were.
C28_OneAnimationPerClip ==
    [][AnimationProcessed =>
          /\ Len(writer'.json.animations) = animIdx
          /\ AnimationOf(writer.options.animations[animIdx], writer'.json.animations[animIdx])
          /\ pc' = "deferred"
          /\ writer'.options.animations = options.animations]_vars

(***************************************************************************)
(* ShaderMaterial.                                                         *)
(***************************************************************************)
\* the material the i-th primitive of a mesh with this cache key is drawn with
PrimitiveMaterial(key, i) ==
    LET groups == Geometries[key[1]].groups
    IN  IF Len(key) = 2 /\ groups = <<>> THEN key[2]
        ELSE key[groups[i].materialIndex + 2]

\* no trace of a ShaderMaterial in the document, the cache or the hooks, and
\* the primitives drawn with one carry no material
NoShaderMaterialEmitted ==
    /\ \A def \in Range(writer.json.materials) : ~Materials[def.name].isShaderMaterial
    /\ \A material \in DOMAIN writer.cache.materials : ~Materials[material].isShaderMaterial
    /\ \A b \in Range(writer.broadcasts) :
           b.hook = "writeMaterial" => ~Materials[b.entity].isShaderMaterial
    /\ \A key \in DOMAIN writer.cache.meshes :
           LET primitives == writer.json.meshes[writer.cache.meshes[key] + 1].primitives
           IN  \A i \in 1..Len(primitives) :
                   Materials[PrimitiveMaterial(key, i)].isShaderMaterial
                       => primitives[i].material = Absent

\* a mesh drawn with a ShaderMaterial alone is visited
ShaderMeshVisited ==
    /\ MeshVisited
    /\ ~IsArray(VisitedMesh.material)
    /\ Materials[VisitedMesh.material].isShaderMaterial

\* the visit adds no material and raises no error of its own
FailsSoft ==
    (ShaderMeshVisited /\ VisitedMesh.geometry = 2)
    => /\ writer'.json.materials = writer.json.materials
       /\ writer'.cache.materials = writer.cache.materials
       /\ writer'.thrown = ""

\* an export of plain meshes, one at least with a ShaderMaterial, the others
\* with a material without textures
ShaderExport ==
    /\ pluginCallbacks = ExporterConstructor
    /\ options.animations = <<>>
    /\ \A o \in Obj : graph.type[o] \in {"Object3D", "Mesh"}
    /\ \A o \in Obj : graph.type[o] = "Mesh" =>
           /\ graph.mesh[o].geometry = 2
           /\ graph.mesh[o].material \in {1, 4, 14}
    /\ \E o \in Obj : graph.type[o] = "Mesh" /\ graph.mesh[o].material \in {4, 14}
                      /\ graph.visible[o]

\* C29: processMaterial on a ShaderMaterial returns null: no json.materials
\* entry, no cache entry and no writeMaterial hook for it, and the primitive
\* drawn with it has no material; the export goes on, ends in onDone and
\* never calls onError.
C29_ShaderMaterialFailsSoft ==
    /\ []NoShaderMaterialEmitted
    /\ [][FailsSoft]_vars
    /\ [](ShaderExport => onErrorCalls = 0 /\ pc \notin {"rejected", "errored"})
    /\ (ShaderExport ~> (pc = "done" /\ onDoneCalls = 1 /\ onErrorCalls = 0))

\* the export of a mesh with a ShaderMaterial has ended in onDone
C29_Witness ==
    /\ ShaderExport /\ pc = "done" /\ onDoneCalls = 1
    /\ \E key \in DOMAIN writer.cache.meshes :
           /\ Materials[key[2]].isShaderMaterial
           /\ writer.json.meshes[writer.cache.meshes[key] + 1].primitives[1].material = Absent

(***************************************************************************)
(* Node indices in post-order.                                             *)
(***************************************************************************)
\* processNode returns for the object on top of the stack
NodeReturned ==
    /\ stack # <<>> /\ stack[Len(stack)].kind = "node"
    /\ Len(stack') = Len(stack) - 1

ReturnedObject == stack[Len(stack)].obj

\* the broadcast of the writeNode hooks of the step
LastBroadcast == writer'.broadcasts[Len(writer'.broadcasts)]

\* the node has entries of all its exported descendants and none of its own
\* while its hooks run; then it gets the next index
IndexAfterHooks ==
    NodeReturned =>
        /\ ReturnedObject \notin DOMAIN writer.nodeMap
        /\ (Descendants(graph, ReturnedObject) \cap ExportedObjects) \subseteq DOMAIN writer.nodeMap
        /\ LastBroadcast.hook = "writeNode" /\ LastBroadcast.entity = ReturnedObject
        /\ ~LastBroadcast.cached
        /\ LastBroadcast.index = Len(writer.json.nodes)
        /\ writer'.nodeMap[ReturnedObject] = Len(writer.json.nodes)
        /\ Len(writer'.json.nodes) = Len(writer.json.nodes) + 1

\* every node stands behind its descendants and behind the nodes it lists
DescendantsFirst ==
    /\ \A o \in DOMAIN writer.nodeMap :
           \A d \in Descendants(graph, o) \cap DOMAIN writer.nodeMap :
               writer.nodeMap[d] < writer.nodeMap[o]
    /\ \A k \in 1..Len(writer.json.nodes) :
           \A c \in Range(writer.json.nodes[k].children) : c < k - 1

\* C30: a node gets its index and its nodeMap entry only after its exported
\* descendants got theirs and after its writeNode hooks ran: its index is
\* above those of its descendants and of the children it lists, and while
\* its hooks run nodeMap holds its exported descendants but not the node.
C30_NodesInPostOrder == []DescendantsFirst /\ [][IndexAfterHooks]_vars

\* a finished export in which a node has a grandchild
C30_Witness ==
    /\ pc = "done"
    /\ \E o \in DOMAIN writer.nodeMap :
           \E d \in Descendants(graph, o) \cap DOMAIN writer.nodeMap :
               graph.parent[d] # o /\ writer.json.nodes[writer.nodeMap[o] + 1].children # <<>>
====
